---- MODULE Spec2Model ----
(***************************************************************************)
(* Ngonilele tablature generator: the tablature parser (utils/parser.ts)   *)
(* and the playback engine (utils/audio.ts) as state machines.             *)
(*                                                                         *)
(* A string of the program is a sequence of characters, each character a   *)
(* one-character TLA+ string.  The three music glyphs of the notation are  *)
(* written "<eighth>", "<triplet>" and "<sixteenth>" (one element each:    *)
(* no code path looks inside a glyph).                                     *)
(*                                                                         *)
(* A JavaScript value that can end up in a tick is a record                *)
(*   [k |-> "number" | "NaN" | "string" | "function" | "undefined",        *)
(*    n |-> the number, in 1/PerTick of a tick,  s |-> the string].        *)
(***************************************************************************)
EXTENDS Integers, Sequences, FiniteSets, TLC

VARIABLES
  \* ---- parseTablature(text) ----
  text,         \* the argument
  ppc,          \* "call" -> "forEach" -> "returned"
  lines,        \* const lines = text.trim().split('\n')
  index,        \* number of lines the forEach has visited
  data,         \* const data: ParsedNote[]
  currentTick,  \* let currentTick
  parts,        \* locals of the last callback run: parts, thisDelta, noteTick
  thisDelta,
  noteTick,
  result,       \* the returned array
  \* ---- AudioEngine: the fields of the object ----
  ctx,                 \* "none" (null), or the AudioContext's state
  isPlaying,
  nextNoteIndex,
  startTime,
  schedulerId,         \* 0 is null
  animationFrameId,    \* 0 is null
  bpm,
  playbackSpeed,
  notes,
  isMetronomeEnabled,
  nextBeatTime,
  currentBeatIndex,
  rhythmMode,
  stringBuffers,       \* the note names with a cached buffer
  samplesLoaded,
  \* ---- the engine's environment ----
  now,                 \* ctx.currentTime
  timers,              \* ids of the pending setTimeout(schedule) callbacks
  frames,              \* ids of the pending requestAnimationFrame callbacks
  plays,               \* the play() calls suspended at an await
  \* what the last step did to the outside: the sources it started, in
  \* order, its onTickCallback argument (<<>>: no call), its onEndedCallback
  \* calls, its setTimeout and requestAnimationFrame calls
  sounds,
  lastReport,
  endedCalls,
  armed,
  playCalls,           \* calls of play() and playPrerendered() so far
  quiet,               \* stop() has returned and play() was not called since
  \* ---- playPrerendered, the exports, the encoder ----
  prerenderedSource,   \* 0 is null
  sources,             \* the prerendered sources whose ended event is to come
  exports,             \* the exportWav/exportMp3 calls suspended at an await
  exportCalls,         \* calls of exportWav/exportMp3 so far
  rendered,            \* what the last step submitted to an
                       \* OfflineAudioContext (<<>>: no render)
  wave,                \* bufferToWave: its arguments, locals and output
  \* ---- history ----
  userSpeed,           \* the speed last given to setPlaybackSpeed
  anchor,              \* <<tick, time>> of the first note started in the
                       \* session since the tempo last changed (<<>>: none)
  renders,             \* the renders submitted so far, each with its tempo
  endedInSession,      \* onEndedCallback calls since the session started
  \* ---- the tuning and the sample cache ----
  currentTuning,       \* string id -> note name
  fallbacks,           \* the cached note names whose buffer is the fallback
                       \* tone (the others hold the decoded sample)
  loadings,            \* the loadSamples() calls of setTuning() in flight
  tuningChanges        \* setTuning() calls that changed the tuning so far

parserVars == <<text, ppc, lines, index, data, currentTick, parts, thisDelta,
                noteTick, result>>

engineVars == <<ctx, isPlaying, nextNoteIndex, startTime, schedulerId,
                animationFrameId, bpm, playbackSpeed, notes,
                isMetronomeEnabled, nextBeatTime, currentBeatIndex, rhythmMode,
                stringBuffers, samplesLoaded, now, timers, frames, plays,
                sounds, lastReport, endedCalls, armed, playCalls, quiet,
                prerenderedSource, sources, exports, exportCalls, rendered,
                wave, userSpeed, anchor, renders, endedInSession,
                currentTuning, fallbacks, loadings, tuningChanges>>

\* What a step of the live engine leaves alone besides the fields.
asideVars == <<exports, exportCalls, wave, userSpeed, renders>>
\* The tuning and the loads setTuning() started.
tuningVars == <<currentTuning, loadings, tuningChanges>>

vars == <<parserVars, engineVars>>

-----------------------------------------------------------------------------
(* JavaScript values and the operations the parser applies to them.        *)

\* Numbers are kept in halves of a tick, so that parseFloat("1.5") and
\* Math.floor(3 * 1.5) are exact.
PerTick == 2

Num(n) == [k |-> "number", n |-> n, s |-> <<>>]
NaN == [k |-> "NaN", n |-> 0, s |-> <<>>]
Str(s) == [k |-> "string", n |-> 0, s |-> s]
Undefined == [k |-> "undefined", n |-> 0, s |-> <<>>]
\* A member inherited from Object.prototype (toString, constructor, ...).
FunctionValue == [k |-> "function", n |-> 0, s |-> <<>>]

Ticks(n) == Num(n * PerTick)

DigitChars == <<"0", "1", "2", "3", "4", "5", "6", "7", "8", "9">>
IsDigit(c) == \E i \in 1..10 : DigitChars[i] = c
DigitValue(c) == (CHOOSE i \in 1..10 : DigitChars[i] = c) - 1

RECURSIVE NatToString(_)
NatToString(n) ==
  IF n < 10 THEN <<DigitChars[n + 1]>>
  ELSE NatToString(n \div 10) \o <<DigitChars[(n % 10) + 1]>>

\* String(v) as the + operator applies it to an operand.
JsToString(v) ==
  CASE v.k = "number" ->
         NatToString(v.n \div PerTick)
           \o (IF v.n % PerTick = 0 THEN <<>> ELSE <<".", "5">>)
    [] v.k = "NaN" -> <<"N", "a", "N">>
    [] v.k = "string" -> v.s
    [] v.k = "function" -> <<"function () { [native code] }">>
    [] OTHER -> <<"u", "n", "d", "e", "f", "i", "n", "e", "d">>

\* a + b: concatenation as soon as one operand is a string or an object,
\* otherwise the sum of two numbers, NaN when one of them is NaN.
JsAdd(a, b) ==
  IF a.k \in {"string", "function"} \/ b.k \in {"string", "function"}
  THEN Str(JsToString(a) \o JsToString(b))
  ELSE IF a.k = "number" /\ b.k = "number" THEN Num(a.n + b.n)
  ELSE NaN

\* a - b of the sort's comparator: ToNumber of a string that is no numeric
\* literal, of a function or of undefined is NaN.
JsSub(a, b) ==
  IF a.k = "number" /\ b.k = "number" THEN Num(a.n - b.n) ELSE NaN

\* v * 1.5, not floored
MathDottedNoFloor(v) ==
  IF v.k = "number" THEN Num((3 * v.n) \div 2) ELSE NaN

\* Math.floor(v * 1.5)
MathFloorDotted(v) ==
  IF v.k = "number" THEN Num(((3 * v.n) \div (2 * PerTick)) * PerTick) ELSE NaN

Truthy(v) == v.k \in {"string", "function"} \/ (v.k = "number" /\ v.n # 0)

-----------------------------------------------------------------------------
(* String operations.                                                      *)

IsSpace(c) == c \in {" ", "\t", "\n"}

RECURSIVE TrimStart(_)
TrimStart(s) ==
  IF s # <<>> /\ IsSpace(Head(s)) THEN TrimStart(Tail(s)) ELSE s

RECURSIVE TrimEnd(_)
TrimEnd(s) ==
  IF s # <<>> /\ IsSpace(s[Len(s)]) THEN TrimEnd(SubSeq(s, 1, Len(s) - 1))
  ELSE s

\* String.prototype.trim
Trim(s) == TrimEnd(TrimStart(s))

\* s.split('\n'): the pieces between the separators; [""] for "".
RECURSIVE SplitLines(_)
SplitLines(s) ==
  IF \A i \in 1..Len(s) : s[i] # "\n" THEN <<s>>
  ELSE LET i == CHOOSE j \in 1..Len(s) :
                  s[j] = "\n" /\ \A h \in 1..(j - 1) : s[h] # "\n"
       IN <<SubSeq(s, 1, i - 1)>> \o SplitLines(SubSeq(s, i + 1, Len(s)))

\* s.split(/\s+/): the pieces between the maximal runs of white space.
RECURSIVE SplitSpaces(_)
SplitSpaces(s) ==
  IF \A i \in 1..Len(s) : ~IsSpace(s[i]) THEN <<s>>
  ELSE LET i == CHOOSE j \in 1..Len(s) :
                  IsSpace(s[j]) /\ \A h \in 1..(j - 1) : ~IsSpace(s[h])
           e == CHOOSE j \in i..Len(s) :
                  /\ \A h \in i..j : IsSpace(s[h])
                  /\ (j = Len(s) \/ ~IsSpace(s[j + 1]))
       IN <<SubSeq(s, 1, i - 1)>> \o SplitSpaces(SubSeq(s, e + 1, Len(s)))

LowerChars == <<"a", "b", "c", "d", "e", "f", "g", "h", "i", "j", "k", "l", "m",
                "n", "o", "p", "q", "r", "s", "t", "u", "v", "w", "x", "y", "z">>
UpperChars == <<"A", "B", "C", "D", "E", "F", "G", "H", "I", "J", "K", "L", "M",
                "N", "O", "P", "Q", "R", "S", "T", "U", "V", "W", "X", "Y", "Z">>

\* String.prototype.toUpperCase
ToUpperCase(s) ==
  [i \in 1..Len(s) |->
     IF \E j \in 1..26 : LowerChars[j] = s[i]
     THEN UpperChars[CHOOSE j \in 1..26 : LowerChars[j] = s[i]]
     ELSE s[i]]

\* parts.slice(2).join(' ')
RECURSIVE JoinSpace(_)
JoinSpace(ps) ==
  IF ps = <<>> THEN <<>>
  ELSE IF Len(ps) = 1 THEN ps[1]
  ELSE ps[1] \o <<" ">> \o JoinSpace(Tail(ps))

EndsWithDot(s) == s # <<>> /\ s[Len(s)] = "."
\* s.slice(0, -1)
SliceLast(s) == IF s = <<>> THEN <<>> ELSE SubSeq(s, 1, Len(s) - 1)

\* /^\d+(\.\d+)?$/.test(s)
MatchesNumber(s) ==
  \/ Len(s) >= 1 /\ \A i \in 1..Len(s) : IsDigit(s[i])
  \/ \E d \in 2..(Len(s) - 1) :
       /\ s[d] = "."
       /\ \A i \in 1..Len(s) : i # d => IsDigit(s[i])

RECURSIVE DigitsValue(_)
DigitsValue(s) ==
  IF s = <<>> THEN 0
  ELSE 10 * DigitsValue(SubSeq(s, 1, Len(s) - 1)) + DigitValue(s[Len(s)])

RECURSIVE PowerOfTen(_)
PowerOfTen(n) == IF n = 0 THEN 1 ELSE 10 * PowerOfTen(n - 1)

\* parseFloat(s) of a string MatchesNumber accepts.  Exact for the literals
\* whose fraction is a multiple of one half, the only ones the inputs hold.
ParseFloat(s) ==
  IF \A i \in 1..Len(s) : IsDigit(s[i]) THEN Num(DigitsValue(s) * PerTick)
  ELSE LET d == CHOOSE j \in 1..Len(s) : s[j] = "."
           frac == SubSeq(s, d + 1, Len(s))
       IN Num(DigitsValue(SubSeq(s, 1, d - 1)) * PerTick
              + (DigitsValue(frac) * PerTick) \div PowerOfTen(Len(frac)))

-----------------------------------------------------------------------------
(* utils/parser.ts                                                         *)

TICKS_QUARTER == 12
TICKS_EIGHTH == 6
TICKS_TRIPLET == 4
TICKS_SIXTEENTH == 3

\* The names every object literal inherits from Object.prototype (the ones
\* the inputs use): SYMBOLS_DURATION[name] is a function, not undefined.
ObjectPrototypeKeys ==
  { <<"t", "o", "S", "t", "r", "i", "n", "g">>,
    <<"v", "a", "l", "u", "e", "O", "f">> }

\* SYMBOLS_DURATION[key]
SYMBOLS_DURATION(key) ==
  CASE key = <<"+">> -> Ticks(TICKS_QUARTER)
    [] key = <<"<eighth>">> -> Ticks(TICKS_EIGHTH)
    [] key = <<"<triplet>">> -> Ticks(TICKS_TRIPLET)
    [] key = <<"<sixteenth>">> -> Ticks(TICKS_SIXTEENTH)
    [] key = <<"w">> -> Ticks(48)
    [] key = <<"h">> -> Ticks(24)
    [] key \in ObjectPrototypeKeys -> FunctionValue
    [] OTHER -> Undefined

ThumbPositions ==
  { <<"1", "G">>, <<"2", "G">>, <<"3", "G">>,
    <<"1", "D">>, <<"2", "D">>, <<"3", "D">> }
IndexPositions ==
  { <<"4", "G">>, <<"5", "G">>, <<"6", "G">>,
    <<"4", "D">>, <<"5", "D">>, <<"6", "D">> }

\* AUTOMATIC_FINGERING[stringCode] || 'P'.  stringCode is upper-cased and
\* every name of Object.prototype holds a lower-case letter, so no inherited
\* member is ever found here.
AUTOMATIC_FINGERING(stringCode) ==
  IF stringCode \in IndexPositions THEN <<"I">> ELSE <<"P">>

\* The delta detection of one line: the cursor the line starts from and
\* thisDelta.
DetectDelta(col1, d, cur) ==
  IF col1 = <<"=">>
  THEN [cursor |-> IF Len(d) > 0 THEN d[Len(d)].tick ELSE cur,
        thisDelta |-> Num(0)]
  ELSE IF MatchesNumber(col1)
  THEN [cursor |-> cur, thisDelta |-> ParseFloat(col1)]
  ELSE IF SYMBOLS_DURATION(col1) # Undefined
  THEN [cursor |-> cur, thisDelta |-> SYMBOLS_DURATION(col1)]
  ELSE IF EndsWithDot(col1) /\ Truthy(SYMBOLS_DURATION(SliceLast(col1)))
  THEN [cursor |-> cur,
        thisDelta |-> MathFloorDotted(SYMBOLS_DURATION(SliceLast(col1)))]
  ELSE [cursor |-> cur, thisDelta |-> Ticks(12)]

\* The delta taken for the tick, the cursor left out.
NoteTickDeltaOnly(cursor, delta) == delta

\* const noteTick = currentTick + thisDelta
NoteTick(cursor, delta) == JsAdd(cursor, delta)

ParsedNote(kind, idx, tick, stringId, doigt, message) ==
  [id |-> <<kind, idx>>, tick |-> tick, duration |-> 0, stringId |-> stringId,
   doigt |-> doigt, message |-> message, lineIndex |-> idx]

\* Only the one-letter form taken for a silence.
IsSilenceOnlyS(stringCode) == stringCode = <<"S">>

\* stringCode === 'S' || stringCode === 'SILENCE' || stringCode === 'SEP'
IsSilence(stringCode) ==
  \/ stringCode = <<"S">>
  \/ stringCode = <<"S", "I", "L", "E", "N", "C", "E">>
  \/ stringCode = <<"S", "E", "P">>

\* The third field compared as written, not upper-cased.
DoigtExactCase(ps, stringCode) ==
  IF Len(ps) > 2 /\ ps[3] \in {<<"I">>, <<"P">>} THEN ps[3]
  ELSE AUTOMATIC_FINGERING(stringCode)

\* The fingering of a note line.
Doigt(ps, stringCode) ==
  IF Len(ps) > 2 /\ ToUpperCase(ps[3]) \in {<<"I">>, <<"P">>}
  THEN ToUpperCase(ps[3])
  ELSE AUTOMATIC_FINGERING(stringCode)

\* What the content analysis of a line appends to data.
Content(ps, idx, tick) ==
  LET stringCode == ToUpperCase(ps[2]) IN
  IF stringCode = <<"T", "X", "T">>
  THEN <<ParsedNote("txt", idx, tick, <<"T", "E", "X", "T", "E">>, <<>>,
                    JoinSpace(SubSeq(ps, 3, Len(ps))))>>
  ELSE IF stringCode = <<"P", "A", "G", "E">>
  THEN <<ParsedNote("pg", idx, tick, <<"P", "A", "G", "E", "_", "B", "R", "E",
                                      "A", "K">>, <<>>, <<>>)>>
  ELSE IF IsSilence(stringCode) THEN <<>>
  ELSE <<ParsedNote("note", idx, tick, stringCode, Doigt(ps, stringCode),
                    <<>>)>>

\* The callback with a short line counted as a line of unknown duration.
CallbackShortLineCounts(line, idx, d, cur) ==
  LET ps == SplitSpaces(Trim(line)) IN
  IF Len(ps) < 2
  THEN [parts |-> ps, data |-> d, currentTick |-> JsAdd(cur, Ticks(12)),
        thisDelta |-> Ticks(12), noteTick |-> JsAdd(cur, Ticks(12))]
  ELSE LET det == DetectDelta(ps[1], d, cur)
           tick == NoteTick(det.cursor, det.thisDelta)
       IN [parts |-> ps, data |-> d \o Content(ps, idx, tick),
           currentTick |-> tick, thisDelta |-> det.thisDelta,
           noteTick |-> tick]

\* One run of the forEach callback on (line, idx), from data d and cursor cur.
Callback(line, idx, d, cur) ==
  LET ps == SplitSpaces(Trim(line)) IN
  IF Len(ps) < 2
  THEN [parts |-> ps, data |-> d, currentTick |-> cur,
        thisDelta |-> Undefined, noteTick |-> Undefined]
  ELSE LET det == DetectDelta(ps[1], d, cur)
           tick == NoteTick(det.cursor, det.thisDelta)
       IN [parts |-> ps, data |-> d \o Content(ps, idx, tick),
           currentTick |-> tick, thisDelta |-> det.thisDelta,
           noteTick |-> tick]

\* (a, b) => a.tick - b.tick
CompareTicks(a, b) == JsSub(a.tick, b.tick)

\* Array.prototype.sort(comparefn): stable; a comparator result of NaN counts
\* as 0.  (With NaN results the comparator is not consistent and the order
\* is implementation-defined; on the arrays the parser builds, where no
\* earlier element compares greater than a later one, every engine's merge
\* and insertion sort leave the array as it is, as this one does.)
RECURSIVE InsertByTick(_, _)
InsertByTick(sorted, x) ==
  IF sorted = <<>> THEN <<x>>
  ELSE LET last == sorted[Len(sorted)]
           c == CompareTicks(last, x)
       IN IF c.k = "number" /\ c.n > 0
          THEN Append(InsertByTick(SubSeq(sorted, 1, Len(sorted) - 1), x), last)
          ELSE Append(sorted, x)

RECURSIVE SortByTick(_)
SortByTick(d) ==
  IF d = <<>> THEN <<>>
  ELSE InsertByTick(SortByTick(SubSeq(d, 1, Len(d) - 1)), d[Len(d)])

\* The whole function on the lines ls, from line k on (0-based index k - 1).
RECURSIVE ForEachFrom(_, _, _, _)
ForEachFrom(ls, k, d, cur) ==
  IF k > Len(ls) THEN [data |-> d, currentTick |-> cur]
  ELSE LET r == Callback(ls[k], k - 1, d, cur)
       IN ForEachFrom(ls, k + 1, r.data, r.currentTick)

parseTablature(t) ==
  IF t = <<>> THEN <<>>
  ELSE SortByTick(ForEachFrom(SplitLines(Trim(t)), 1, <<>>, Num(0)).data)

-----------------------------------------------------------------------------
(* The texts parseTablature is called with.                                *)

\* Lines of a text made of the core lines.
MaxLines == 3

Field2(a, b) == a \o <<" ">> \o b
Field3(a, b, c) == a \o <<" ">> \o b \o <<" ">> \o c

DurationSymbols ==
  { <<"+">>, <<"<eighth>">>, <<"<triplet>">>, <<"<sixteenth>">>, <<"h">>,
    <<"w">> }
DottedSymbols == { sym \o <<".">> : sym \in DurationSymbols }
NumberTokens == { <<"0">>, <<"3">>, <<"1", "2">>, <<"1", ".", "5">>,
                  <<"0", ".", "5">>, <<"2", ".", "0">> }
OtherTokens ==
  { <<"x", "y", "z">>, <<"H">>, <<"+", ".", ".">>, <<"+", "+">>, <<".">>,
    <<"1", ".">>, <<".", "5">>, <<"-", "3">>, <<"=", ".">>, <<"=", "=">>,
    <<"t", "o", "S", "t", "r", "i", "n", "g">>,
    <<"v", "a", "l", "u", "e", "O", "f", ".">> }
DeltaTokens ==
  {<<"=">>} \cup DurationSymbols \cup DottedSymbols \cup NumberTokens
    \cup OtherTokens

PositionTokens ==
  ThumbPositions \cup IndexPositions
    \cup { <<"1", "g">>, <<"4", "d">>, <<"7", "G">>, <<"X">> }
ContentTokens ==
  PositionTokens
    \cup { <<"S">>, <<"s">>, <<"S", "I", "L", "E", "N", "C", "E">>,
           <<"S", "i", "l", "e", "n", "c", "e">>, <<"S", "E", "P">>,
           <<"s", "e", "p">>, <<"S", "S">>, <<"T", "X", "T">>,
           <<"t", "x", "t">>, <<"P", "A", "G", "E">>, <<"p", "a", "g", "e">> }
FingerTokens ==
  { <<"I">>, <<"P">>, <<"i">>, <<"p">>, <<"X">>, <<"I", "P">>, <<"P", "I">> }

\* Every delta token, every content token and every third field, one line each.
WideLines ==
  { Field2(d, <<"1", "D">>) : d \in DeltaTokens }
    \cup { Field2(<<"+">>, c) : c \in ContentTokens }
    \cup { Field3(<<"<eighth>">>, c, f) : c \in PositionTokens, f \in FingerTokens }

\* The lines the longer texts are made of.
CoreLines ==
  { Field2(<<"+">>, <<"1", "D">>),
    Field2(<<"<eighth>">>, <<"2", "G">>),
    Field2(<<"=">>, <<"3", "D">>),
    Field2(<<"+">>, <<"S">>),
    <<" ", " ", "1", ".", "5", "\t", " ", "4", "g", " ", "i", " ">>,
    Field3(<<"x">>, <<"T", "X", "T">>, <<"a">>),
    Field2(<<"t", "o", "S", "t", "r", "i", "n", "g">>, <<"5", "G">>),
    <<"+">>,
    <<" ", "\t">>,
    <<>> }

RECURSIVE JoinLines(_)
JoinLines(ls) ==
  IF ls = <<>> THEN <<>>
  ELSE IF Len(ls) = 1 THEN ls[1]
  ELSE ls[1] \o <<"\n">> \o JoinLines(Tail(ls))

CoreTexts ==
  { JoinLines(ls) : ls \in UNION { [1..n -> CoreLines] : n \in 0..MaxLines } }
WideTexts ==
  WideLines
    \cup { JoinLines(<<c, w>>) :
             c \in { Field2(<<"+">>, <<"1", "D">>), Field2(<<"+">>, <<"S">>),
                     Field2(<<"1", ".", "5">>, <<"6", "D">>) },
             w \in WideLines }
Texts == CoreTexts \cup WideTexts

-----------------------------------------------------------------------------
(* parseTablature as a state machine: the call, one step per line of the   *)
(* forEach, the return.                                                    *)

ParserInit ==
  /\ text \in Texts
  /\ ppc = "call"
  /\ lines = <<>>
  /\ index = 0
  /\ data = <<>>
  /\ currentTick = Num(0)
  /\ parts = <<>>
  /\ thisDelta = Undefined
  /\ noteTick = Undefined
  /\ result = <<>>

\* if (!text) return [];  const lines = text.trim().split('\n');
ParseCall ==
  /\ ppc = "call"
  /\ IF text = <<>>
     THEN /\ ppc' = "returned"
          /\ lines' = lines
     ELSE /\ ppc' = "forEach"
          /\ lines' = SplitLines(Trim(text))
  /\ UNCHANGED <<text, index, data, currentTick, parts, thisDelta, noteTick,
                 result>>
  /\ UNCHANGED engineVars

\* lines.forEach((line, index) => { ... }): the callback on the next line.
ParseLine ==
  /\ ppc = "forEach"
  /\ index < Len(lines)
  /\ LET r == Callback(lines[index + 1], index, data, currentTick)
     IN /\ parts' = r.parts
        /\ data' = r.data
        /\ currentTick' = r.currentTick
        /\ thisDelta' = r.thisDelta
        /\ noteTick' = r.noteTick
  /\ index' = index + 1
  /\ UNCHANGED <<text, ppc, lines, result>>
  /\ UNCHANGED engineVars

\* return data.sort((a, b) => a.tick - b.tick);
ParseReturn ==
  /\ ppc = "forEach"
  /\ index = Len(lines)
  /\ result' = SortByTick(data)
  /\ ppc' = "returned"
  /\ UNCHANGED <<text, lines, index, data, currentTick, parts, thisDelta,
                 noteTick>>
  /\ UNCHANGED engineVars

ParserNext == ParseCall \/ ParseLine \/ ParseReturn

-----------------------------------------------------------------------------
(* utils/audio.ts: the AudioEngine.                                        *)
(*                                                                         *)
(* Times (ctx.currentTime, startTime, nextBeatTime, the start time of a    *)
(* source) are in 1/240 s, so that 0.05 s is 12 and one tick at 120 bpm is *)
(* 10; the comparisons of the code are made on these exact values.         *)
(* The operators below take and return the record w of the engine's fields *)
(* and of its environment, as one call of the method changes them.         *)

\* Calls of play() and the reach of the clock.
MaxPlayCalls == 2
MaxClock == 240
ClockSteps == {24, 120}

START_OFFSET == 24          \* + 0.1
scheduleAheadTime == 96     \* 0.4
LATE_TOLERANCE == 12        \* 0.05
END_MARGIN == 120           \* 0.5

\* BASE_TUNING (constants.ts): string id -> note name; two strings may
\* share a note.
BASE_TUNING ==
  [id \in {"1D", "1G", "2D"} |->
     CASE id = "1D" -> "C4" [] id = "1G" -> "D4" [] id = "2D" -> "C4"]
\* this.currentTuning[stringId]; "" is undefined
NoteName(stringId) ==
  IF stringId \in DOMAIN currentTuning THEN currentTuning[stringId] ELSE ""
\* Object.values(this.currentTuning)
TuningValues == { currentTuning[id] : id \in DOMAIN currentTuning }

\* setNotes(notes): this.notes = notes.filter(...)
RECURSIVE SetNotes(_)
SetNotes(ns) ==
  IF ns = <<>> THEN <<>>
  ELSE IF Head(ns).stringId \in {"TEXTE", "PAGE_BREAK"} THEN SetNotes(Tail(ns))
  ELSE <<Head(ns)>> \o SetNotes(Tail(ns))

Note(t, id) == [tick |-> t, stringId |-> id]
\* The lists setNotes is called with (sorted by tick, as the parser returns
\* them).
NoteLists ==
  { <<>>,
    <<Note(0, "1D")>>,
    <<Note(0, "1D"), Note(6, "TEXTE"), Note(12, "1G")>>,
    <<Note(0, "1D"), Note(0, "2D"), Note(18, "7X")>>,
    <<Note(12, "1G"), Note(24, "1D")>> }
StartTicks == {0, 12}

\* The speed multiplier left out of the tempo.
SecondsPerTickOfBpm(w) == 1200 \div w.bpm

\* The beat as long as a tick.
SecondsPerBeatOfTick(w) == 1200 \div (w.bpm * w.playbackSpeed)

\* (60 / effectiveBpm) / 12 and 60 / effectiveBpm
SecondsPerTick(w) == 1200 \div (w.bpm * w.playbackSpeed)
SecondsPerBeat(w) == 14400 \div (w.bpm * w.playbackSpeed)

\* The id setTimeout or requestAnimationFrame returns: one that names no
\* pending callback and is not the id the engine still holds.
FreshId(used) == CHOOSE i \in 1..(Cardinality(used) + 1) : i \notin used

\* stop()
Stop(w) ==
  [w EXCEPT !.isPlaying = FALSE,
            !.timers = IF w.schedulerId # 0 THEN @ \ {w.schedulerId} ELSE @,
            !.schedulerId = 0,
            !.frames = IF w.animationFrameId # 0 THEN @ \ {w.animationFrameId}
                       ELSE @,
            !.animationFrameId = 0,
            !.prerenderedSource = 0]

\* playShaker(ctx, destination, time, accent, buffer)
PlayShaker(w, time, accent) ==
  [w EXCEPT !.sounds = Append(@, [kind |-> "click", n |-> w.currentBeatIndex,
                                  time |-> time,
                                  with |-> IF accent THEN "accent" ELSE "plain",
                                  gain |-> IF accent THEN 35 ELSE 15])]

\* Math.random() * 0.1, in 1/100
MathRandom == {0, 5}
\* The draws of one look-ahead pass, one for each note it may start: those
\* from the cursor on.
Randoms(ns, cursor) == [(cursor + 1)..Len(ns) -> MathRandom]

\* A late note started all the same.
PlayNoteHoweverLate(w, i, time) ==
  IF NoteName(w.notes[i + 1].stringId) = "" THEN w
  ELSE IF NoteName(w.notes[i + 1].stringId) \notin w.stringBuffers THEN w
  ELSE [w EXCEPT !.sounds = Append(@, [kind |-> "note", n |-> i, time |-> time,
                                       with |-> NoteName(w.notes[i + 1].stringId),
                                       gain |-> 35 + w.random[i + 1]]),
                 !.anchor = IF @ = <<>> THEN <<w.notes[i + 1].tick, time>>
                            ELSE @]

\* playNote(ctx, destination, note, time), note being this.notes[i] (0-based);
\* gains are in 1/100.
PlayNote(w, i, time) ==
  IF time < w.now - LATE_TOLERANCE THEN w
  ELSE IF NoteName(w.notes[i + 1].stringId) = "" THEN w
  ELSE IF NoteName(w.notes[i + 1].stringId) \notin w.stringBuffers THEN w
  ELSE [w EXCEPT !.sounds = Append(@, [kind |-> "note", n |-> i, time |-> time,
                                       with |-> NoteName(w.notes[i + 1].stringId),
                                       gain |-> 35 + w.random[i + 1]]),
                 !.anchor = IF @ = <<>> THEN <<w.notes[i + 1].tick, time>>
                            ELSE @]

\* The metronome loop of schedule()
RECURSIVE MetronomeLoop(_)
MetronomeLoop(w) ==
  IF w.nextBeatTime < w.now + scheduleAheadTime
  THEN LET beatsPerMeasure == IF w.rhythmMode = "binary" THEN 4 ELSE 3
           isAccent == (w.currentBeatIndex % beatsPerMeasure) = 0
           played == IF w.nextBeatTime >= w.now - LATE_TOLERANCE
                     THEN PlayShaker(w, w.nextBeatTime, isAccent)
                     ELSE w
       IN MetronomeLoop([played EXCEPT !.nextBeatTime = @ + SecondsPerBeat(w),
                                       !.currentBeatIndex = @ + 1])
  ELSE w

\* The note loop of schedule()
RECURSIVE NoteLoop(_)
NoteLoop(w) ==
  IF w.nextNoteIndex < Len(w.notes)
  THEN LET noteTime == w.startTime
                         + w.notes[w.nextNoteIndex + 1].tick * SecondsPerTick(w)
       IN IF noteTime < w.now + scheduleAheadTime
          THEN NoteLoop([PlayNote(w, w.nextNoteIndex, noteTime)
                           EXCEPT !.nextNoteIndex = @ + 1])
          ELSE w
  ELSE w

\* The callback left out.
OnEndedNotCalled(w) == w

\* if (this.onEndedCallback) this.onEndedCallback()
OnEnded(w) == [w EXCEPT !.endedCalls = @ + 1, !.endedInSession = @ + 1]

\* window.setTimeout(this.schedule, lookahead)
SetTimeout(w) ==
  LET id == FreshId(w.timers \cup {w.schedulerId})
  IN [w EXCEPT !.timers = @ \cup {id}, !.schedulerId = id, !.armed = @ + 1]

\* The pass without its test for the end of the session.
ScheduleWithoutEnd(w) ==
  IF ~w.isPlaying \/ w.ctx = "none" THEN w
  ELSE SetTimeout(NoteLoop(IF w.isMetronomeEnabled THEN MetronomeLoop(w)
                           ELSE w))

\* The cursor put back where the pass found it.
ScheduleRevisiting(w) ==
  IF ~w.isPlaying \/ w.ctx = "none" THEN w
  ELSE SetTimeout([NoteLoop(w) EXCEPT !.nextNoteIndex = w.nextNoteIndex])

\* schedule()
Schedule(w) ==
  IF ~w.isPlaying \/ w.ctx = "none" THEN w
  ELSE LET m == IF w.isMetronomeEnabled THEN MetronomeLoop(w) ELSE w
           n == NoteLoop(m)
       IN IF n.nextNoteIndex >= Len(n.notes)
             /\ ( \/ n.notes = <<>>
                  \/ n.now > n.startTime
                               + n.notes[Len(n.notes)].tick * SecondsPerTick(n)
                               + END_MARGIN )
          THEN OnEnded(Stop(n))
          ELSE SetTimeout(n)

\* The frame callback putting the next beat at the present time.
UpdateTickUIRealigning(w) ==
  IF ~w.isPlaying \/ w.ctx = "none" THEN w
  ELSE LET id == FreshId(w.frames \cup {w.animationFrameId})
       IN [w EXCEPT !.lastReport = <<w.now - w.startTime, SecondsPerTick(w)>>,
                    !.frames = @ \cup {id},
                    !.animationFrameId = id,
                    !.nextBeatTime = w.now,
                    !.armed = @ + 1]

\* updateTickUI(); the tick handed to onTickCallback is kept as the pair
\* <<ctx.currentTime - startTime, secondsPerTick>> of its quotient.
UpdateTickUI(w) ==
  IF ~w.isPlaying \/ w.ctx = "none" THEN w
  ELSE LET id == FreshId(w.frames \cup {w.animationFrameId})
       IN [w EXCEPT !.lastReport = <<w.now - w.startTime, SecondsPerTick(w)>>,
                    !.frames = @ \cup {id},
                    !.animationFrameId = id,
                    !.armed = @ + 1]

\* The cursor left at the first note.
FindIndexFromStart(ns, startTick) == 0

\* this.notes.findIndex(n => n.tick >= startTick), this.notes.length for -1
FindIndex(ns, startTick) ==
  IF \E i \in 1..Len(ns) : ns[i].tick >= startTick
  THEN (CHOOSE i \in 1..Len(ns) :
          /\ ns[i].tick >= startTick
          /\ \A j \in 1..(i - 1) : ns[j].tick < startTick) - 1
  ELSE Len(ns)

\* The beats passed rounded down.
PlayBodyBeatsFloored(w, startTick) ==
  LET origin == w.now - startTick * SecondsPerTick(w) + START_OFFSET
      beatsPassed == startTick \div TICKS_QUARTER
      started == [w EXCEPT !.isPlaying = TRUE,
                           !.anchor = <<>>,
                           !.endedInSession = 0,
                           !.startTime = origin,
                           !.nextNoteIndex = FindIndex(w.notes, startTick),
                           !.currentBeatIndex = beatsPassed,
                           !.nextBeatTime =
                              origin + beatsPassed * TICKS_QUARTER
                                         * SecondsPerTick(w)]
  IN UpdateTickUI(Schedule(started))

\* play(startTick) from "this.isPlaying = true" on: what runs once both
\* awaits have settled.
PlayBody(w, startTick) ==
  LET origin == w.now - startTick * SecondsPerTick(w) + START_OFFSET
      beatsPassed == (startTick + TICKS_QUARTER - 1) \div TICKS_QUARTER
      started == [w EXCEPT !.isPlaying = TRUE,
                           !.anchor = <<>>,
                           !.endedInSession = 0,
                           !.startTime = origin,
                           !.nextNoteIndex = FindIndex(w.notes, startTick),
                           !.currentBeatIndex = beatsPassed,
                           !.nextBeatTime =
                              origin + beatsPassed * TICKS_QUARTER
                                         * SecondsPerTick(w)]
  IN UpdateTickUI(Schedule(started))

\* loadSamples() up to its await: the note names it fetches.
LoadSamples(w) == TuningValues \ w.stringBuffers

\* The note names whose sample the server may fail to deliver, and the
\* outcomes of fetching names: each set of those that fail.
Unreliable == {"E4"}
Failures(names) == SUBSET (names \cap Unreliable)

\* this.stringBuffers[note] = audioBuffer for the names fetched, and
\* this.stringBuffers[note] = this.generateFallbackBuffer(...) for those of
\* them that failed.
Cache(w, names, failed) ==
  [w EXCEPT !.stringBuffers = @ \cup names,
            !.fallbacks = (@ \ names) \cup failed]

-----------------------------------------------------------------------------
(* The engine and its callers, timers and clock as a state machine.        *)

\* The fields and the environment as a step finds them, nothing done to the
\* outside yet.
World ==
  [ctx |-> ctx, isPlaying |-> isPlaying, nextNoteIndex |-> nextNoteIndex,
   startTime |-> startTime, schedulerId |-> schedulerId,
   animationFrameId |-> animationFrameId, bpm |-> bpm,
   playbackSpeed |-> playbackSpeed, notes |-> notes,
   isMetronomeEnabled |-> isMetronomeEnabled, nextBeatTime |-> nextBeatTime,
   currentBeatIndex |-> currentBeatIndex, rhythmMode |-> rhythmMode,
   stringBuffers |-> stringBuffers, samplesLoaded |-> samplesLoaded,
   now |-> now, timers |-> timers, frames |-> frames, sounds |-> <<>>,
   lastReport |-> <<>>, endedCalls |-> 0, armed |-> 0,
   prerenderedSource |-> prerenderedSource, sources |-> sources,
   rendered |-> <<>>, anchor |-> anchor, endedInSession |-> endedInSession,
   fallbacks |-> fallbacks,
   random |-> [i \in 1..Len(notes) |-> 0]]

\* The fields and the environment become those of w.
Becomes(w) ==
  /\ ctx' = w.ctx
  /\ isPlaying' = w.isPlaying
  /\ nextNoteIndex' = w.nextNoteIndex
  /\ startTime' = w.startTime
  /\ schedulerId' = w.schedulerId
  /\ animationFrameId' = w.animationFrameId
  /\ bpm' = w.bpm
  /\ playbackSpeed' = w.playbackSpeed
  /\ notes' = w.notes
  /\ isMetronomeEnabled' = w.isMetronomeEnabled
  /\ nextBeatTime' = w.nextBeatTime
  /\ currentBeatIndex' = w.currentBeatIndex
  /\ rhythmMode' = w.rhythmMode
  /\ stringBuffers' = w.stringBuffers
  /\ samplesLoaded' = w.samplesLoaded
  /\ now' = w.now
  /\ timers' = w.timers
  /\ frames' = w.frames
  /\ sounds' = w.sounds
  /\ lastReport' = w.lastReport
  /\ endedCalls' = w.endedCalls
  /\ armed' = w.armed
  /\ prerenderedSource' = w.prerenderedSource
  /\ sources' = w.sources
  /\ rendered' = w.rendered
  /\ anchor' = w.anchor
  /\ endedInSession' = w.endedInSession
  /\ fallbacks' = w.fallbacks

\* A step that starts no source and calls no callback.
NoOutput ==
  /\ sounds' = <<>> /\ lastReport' = <<>> /\ endedCalls' = 0 /\ armed' = 0
  /\ rendered' = <<>>

\* The engine as constructed, setNotes(ns) called.
EngineInit(ns) ==
  /\ ctx = "none"
  /\ isPlaying = FALSE
  /\ nextNoteIndex = 0
  /\ startTime = 0
  /\ schedulerId = 0
  /\ animationFrameId = 0
  /\ bpm = 120
  /\ playbackSpeed = 1
  /\ notes = SetNotes(ns)
  /\ isMetronomeEnabled = FALSE
  /\ nextBeatTime = 0
  /\ currentBeatIndex = 0
  /\ rhythmMode = "binary"
  /\ stringBuffers = {}
  /\ samplesLoaded = FALSE
  /\ now = 0
  /\ timers = {}
  /\ frames = {}
  /\ plays = {}
  /\ sounds = <<>>
  /\ lastReport = <<>>
  /\ endedCalls = 0
  /\ armed = 0
  /\ playCalls = 0
  /\ quiet = FALSE
  /\ prerenderedSource = 0
  /\ sources = {}
  /\ exports = {}
  /\ exportCalls = 0
  /\ rendered = <<>>
  /\ wave = [pc |-> "idle"]
  /\ userSpeed = 1
  /\ anchor = <<>>
  /\ renders = {}
  /\ endedInSession = 0
  /\ currentTuning = BASE_TUNING
  /\ fallbacks = {}
  /\ loadings = {}
  /\ tuningChanges = 0

\* A caller calls play(startTick): init(), then the call suspends at
\* "await this.ctx.resume()" when the context is suspended, and otherwise
\* calls loadSamples() and suspends at "await this.loadSamples()".  A new
\* AudioContext starts suspended or running, as the browser decides.
PlayCall ==
  \E startTick \in StartTicks :
  \E created \in {"suspended", "running"} :
    /\ playCalls < MaxPlayCalls
    /\ ctx = "none" \/ created = ctx
    /\ ctx' = created
    /\ plays' = plays \cup
         { [call |-> playCalls + 1, startTick |-> startTick,
            epoch |-> tuningChanges,
            at |-> IF created = "suspended" THEN "resume" ELSE "load",
            loading |-> IF created = "suspended" THEN {}
                        ELSE LoadSamples(World)] }
    /\ playCalls' = playCalls + 1
    /\ quiet' = FALSE
    /\ UNCHANGED <<isPlaying, nextNoteIndex, startTime, schedulerId,
                   animationFrameId, bpm, playbackSpeed, notes,
                   isMetronomeEnabled, nextBeatTime, currentBeatIndex,
                   rhythmMode, stringBuffers, samplesLoaded, now, timers,
                   frames>>
    /\ NoOutput
    /\ UNCHANGED <<prerenderedSource, sources, anchor, endedInSession>>
    /\ UNCHANGED asideVars
    /\ UNCHANGED <<tuningVars, fallbacks>>
    /\ UNCHANGED parserVars

\* ctx.resume() settles: the suspended play() goes on to loadSamples().
ResumeSettles ==
  \E p \in plays :
    /\ p.at = "resume"
    /\ ctx' = "running"
    /\ plays' = (plays \ {p})
         \cup { [p EXCEPT !.at = "load", !.loading = LoadSamples(World),
                          !.epoch = tuningChanges] }
    /\ UNCHANGED <<isPlaying, nextNoteIndex, startTime, schedulerId,
                   animationFrameId, bpm, playbackSpeed, notes,
                   isMetronomeEnabled, nextBeatTime, currentBeatIndex,
                   rhythmMode, stringBuffers, samplesLoaded, now, timers,
                   frames, playCalls, quiet>>
    /\ NoOutput
    /\ UNCHANGED <<prerenderedSource, sources, anchor, endedInSession>>
    /\ UNCHANGED asideVars
    /\ UNCHANGED <<tuningVars, fallbacks>>
    /\ UNCHANGED parserVars

\* loadSamples() settles, every note name it fetched cached as the decoded
\* sample or as the fallback tone, and the suspended play() runs to its end:
\* isPlaying = true, the origin, the cursors, schedule(), updateTickUI().
LoadSettles ==
  \E p \in plays :
    /\ p.at = "load"
    /\ \E failed \in Failures(p.loading) :
       \E r \in Randoms(notes, FindIndex(notes, p.startTick)) :
         Becomes(PlayBody([Cache(World, p.loading, failed) EXCEPT
                             !.samplesLoaded = TRUE,
                             !.random = r],
                          p.startTick))
    /\ plays' = plays \ {p}
    /\ UNCHANGED <<playCalls, quiet>>
    /\ UNCHANGED asideVars
    /\ UNCHANGED tuningVars
    /\ UNCHANGED parserVars

\* A caller calls stop().
StopCall ==
  /\ Becomes(Stop(World))
  /\ quiet' = TRUE
  /\ UNCHANGED <<plays, playCalls>>
  /\ UNCHANGED asideVars
  /\ UNCHANGED tuningVars
  /\ UNCHANGED parserVars

\* A caller calls setMetronome(enabled).
SetMetronome ==
  \E enabled \in BOOLEAN :
    /\ isMetronomeEnabled' = enabled
    /\ UNCHANGED <<ctx, isPlaying, nextNoteIndex, startTime, schedulerId,
                   animationFrameId, bpm, playbackSpeed, notes, nextBeatTime,
                   currentBeatIndex, rhythmMode, stringBuffers, samplesLoaded,
                   now, timers, frames, plays, playCalls, quiet>>
    /\ NoOutput
    /\ UNCHANGED <<prerenderedSource, sources, anchor, endedInSession>>
    /\ UNCHANGED asideVars
    /\ UNCHANGED <<tuningVars, fallbacks>>
    /\ UNCHANGED parserVars

\* A caller calls setRhythmMode(mode).
SetRhythmMode ==
  \E mode \in {"binary", "ternary"} :
    /\ rhythmMode' = mode
    /\ UNCHANGED <<ctx, isPlaying, nextNoteIndex, startTime, schedulerId,
                   animationFrameId, bpm, playbackSpeed, notes, nextBeatTime,
                   currentBeatIndex, isMetronomeEnabled, stringBuffers,
                   samplesLoaded, now, timers, frames, plays, playCalls, quiet>>
    /\ NoOutput
    /\ UNCHANGED <<prerenderedSource, sources, anchor, endedInSession>>
    /\ UNCHANGED asideVars
    /\ UNCHANGED <<tuningVars, fallbacks>>
    /\ UNCHANGED parserVars

\* A pending setTimeout callback runs schedule().
TimerFires ==
  \E id \in timers :
    /\ \E r \in Randoms(notes, nextNoteIndex) :
         Becomes(Schedule([World EXCEPT !.timers = @ \ {id}, !.random = r]))
    /\ UNCHANGED <<plays, playCalls, quiet>>
    /\ UNCHANGED asideVars
    /\ UNCHANGED tuningVars
    /\ UNCHANGED parserVars

\* A pending requestAnimationFrame callback runs updateTickUI().
FrameFires ==
  \E id \in frames :
    /\ Becomes(UpdateTickUI([World EXCEPT !.frames = @ \ {id}]))
    /\ UNCHANGED <<plays, playCalls, quiet>>
    /\ UNCHANGED asideVars
    /\ UNCHANGED tuningVars
    /\ UNCHANGED parserVars

\* The audio clock of a running context moves on.
ClockAdvances ==
  \E d \in ClockSteps :
    /\ ctx = "running"
    /\ now + d <= MaxClock
    /\ now' = now + d
    /\ UNCHANGED <<ctx, isPlaying, nextNoteIndex, startTime, schedulerId,
                   animationFrameId, bpm, playbackSpeed, notes,
                   isMetronomeEnabled, nextBeatTime, currentBeatIndex,
                   rhythmMode, stringBuffers, samplesLoaded, timers, frames,
                   plays, playCalls, quiet>>
    /\ NoOutput
    /\ UNCHANGED <<prerenderedSource, sources, anchor, endedInSession>>
    /\ UNCHANGED asideVars
    /\ UNCHANGED <<tuningVars, fallbacks>>
    /\ UNCHANGED parserVars

EngineNext ==
  \/ PlayCall
  \/ ResumeSettles
  \/ LoadSettles
  \/ StopCall
  \/ SetMetronome
  \/ TimerFires
  \/ FrameFires
  \/ ClockAdvances

-----------------------------------------------------------------------------
(* utils/audio.ts: playPrerendered, the tempo setters, the offline render  *)
(* and the exports.                                                        *)

\* The tempos and speeds the callers set, the calls of an export.
Bpms == {60, 120}
Speeds == {1, 2}
MaxExportCalls == 2

RENDER_TAIL == 720          \* + 3.0
OFFLINE_GAIN == 40          \* gain.gain.value = 0.4

\* getCurrentTick(): 0 when there is no context or nothing plays, and else
\* (ctx.currentTime - startTime) / secondsPerTick, kept as the pair
\* <<dividend, divisor>> of the quotient.
GetCurrentTick(w) ==
  IF w.ctx = "none" \/ ~w.isPlaying THEN <<0, 1>>
  ELSE <<w.now - w.startTime, SecondsPerTick(w)>>

\* playPrerendered(buffer, monitor) once init() has run.
PlayPrerendered(w) ==
  LET id == FreshId(w.sources \cup {w.prerenderedSource})
      started == [w EXCEPT !.isPlaying = TRUE,
                           !.prerenderedSource = id,
                           !.sources = @ \cup {id},
                           !.startTime = w.now,
                           !.anchor = <<>>,
                           !.endedInSession = 0,
                           !.sounds = Append(@, [kind |-> "prerendered",
                                                 n |-> id, time |-> w.now,
                                                 with |-> "buffer",
                                                 gain |-> 100])]
  IN UpdateTickUI(started)

\* source.onended = () => { this.stop(); onEndedCallback() }
SourceOnEnded(w) == OnEnded(Stop(w))

\* The notes renderProjectToBuffer submits, from this.notes[i - 1] on.
RECURSIVE RenderNotes(_, _, _)
RenderNotes(w, i, secondsPerTick) ==
  IF i > Len(w.notes) THEN <<>>
  ELSE LET noteName == NoteName(w.notes[i].stringId)
       IN (IF noteName # "" /\ noteName \in w.stringBuffers
           THEN << [kind |-> "note", n |-> i - 1,
                    time |-> w.notes[i].tick * secondsPerTick,
                    with |-> noteName, gain |-> OFFLINE_GAIN] >>
           ELSE <<>>)
          \o RenderNotes(w, i + 1, secondsPerTick)

\* Every note submitted, resolved or not.
RenderProjectUnfiltered(w) ==
  LET secondsPerTick == SecondsPerTick(w)
  IN [secondsPerTick |-> secondsPerTick,
      duration |-> w.notes[Len(w.notes)].tick * secondsPerTick + RENDER_TAIL,
      sampleRate |-> IF w.ctx = "none" THEN "44100" ELSE "ctx.sampleRate",
      subs |-> [i \in 1..Len(w.notes) |->
                  [kind |-> "note", n |-> i - 1,
                   time |-> w.notes[i].tick * secondsPerTick,
                   with |-> NoteName(w.notes[i].stringId),
                   gain |-> OFFLINE_GAIN]]]

\* renderProjectToBuffer() from "const lastNote" to startRendering(), on a
\* note list that is not empty: the OfflineAudioContext it makes and the
\* sources it starts in it.
RenderProjectToBuffer(w) ==
  LET secondsPerTick == SecondsPerTick(w)
  IN [secondsPerTick |-> secondsPerTick,
      duration |-> w.notes[Len(w.notes)].tick * secondsPerTick + RENDER_TAIL,
      sampleRate |-> IF w.ctx = "none" THEN "44100" ELSE "ctx.sampleRate",
      subs |-> RenderNotes(w, 1, secondsPerTick)]

\* A caller calls playPrerendered(buffer): init() makes the context when
\* there is none; ctx.resume() is called and not awaited.
PlayPrerenderedCall ==
  \E created \in {"suspended", "running"} :
    /\ playCalls < MaxPlayCalls
    /\ ctx = "none" \/ created = ctx
    /\ Becomes(PlayPrerendered([World EXCEPT !.ctx = created]))
    /\ playCalls' = playCalls + 1
    /\ quiet' = FALSE
    /\ UNCHANGED plays
    /\ UNCHANGED asideVars
    /\ UNCHANGED tuningVars
    /\ UNCHANGED parserVars

\* The ended event of a prerendered source, which has reached its end or
\* was stopped, runs its handler.
SourceEnded ==
  \E id \in sources :
    /\ Becomes(SourceOnEnded([World EXCEPT !.sources = @ \ {id}]))
    /\ UNCHANGED <<plays, playCalls, quiet>>
    /\ UNCHANGED asideVars
    /\ UNCHANGED tuningVars
    /\ UNCHANGED parserVars

\* A caller calls setBpm(b).
SetBpm ==
  \E b \in Bpms :
    /\ bpm' = b
    /\ anchor' = IF b = bpm THEN anchor ELSE <<>>
    /\ UNCHANGED <<ctx, isPlaying, nextNoteIndex, startTime, schedulerId,
                   animationFrameId, playbackSpeed, notes, isMetronomeEnabled,
                   nextBeatTime, currentBeatIndex, rhythmMode, stringBuffers,
                   samplesLoaded, now, timers, frames, plays, playCalls,
                   quiet, prerenderedSource, sources, endedInSession>>
    /\ NoOutput
    /\ UNCHANGED asideVars
    /\ UNCHANGED <<tuningVars, fallbacks>>
    /\ UNCHANGED parserVars

\* A caller calls setPlaybackSpeed(speed).
SetPlaybackSpeed ==
  \E speed \in Speeds :
    /\ playbackSpeed' = speed
    /\ userSpeed' = speed
    /\ anchor' = IF speed = playbackSpeed THEN anchor ELSE <<>>
    /\ UNCHANGED <<ctx, isPlaying, nextNoteIndex, startTime, schedulerId,
                   animationFrameId, bpm, notes, isMetronomeEnabled,
                   nextBeatTime, currentBeatIndex, rhythmMode, stringBuffers,
                   samplesLoaded, now, timers, frames, plays, playCalls,
                   quiet, prerenderedSource, sources, endedInSession>>
    /\ NoOutput
    /\ UNCHANGED <<exports, exportCalls, wave, renders>>
    /\ UNCHANGED <<tuningVars, fallbacks>>
    /\ UNCHANGED parserVars

\* A caller calls exportWav() or exportMp3(): the speed is saved and set to
\* 1.0, and renderProjectToBuffer() returns null at once on an empty note
\* list and otherwise calls loadSamples() and suspends at its await.
ExportCall ==
  \E kind \in {"wav", "mp3"} :
    /\ exportCalls < MaxExportCalls
    /\ exportCalls' = exportCalls + 1
    /\ playbackSpeed' = 1
    /\ anchor' = IF playbackSpeed = 1 THEN anchor ELSE <<>>
    /\ exports' = exports \cup
         { [call |-> exportCalls + 1, kind |-> kind,
            savedSpeed |-> playbackSpeed,
            epoch |-> tuningChanges,
            at |-> IF notes = <<>> THEN "render" ELSE "load",
            loading |-> IF notes = <<>> \/ ctx = "none" THEN {}
                        ELSE LoadSamples(World)] }
    /\ UNCHANGED <<ctx, isPlaying, nextNoteIndex, startTime, schedulerId,
                   animationFrameId, bpm, notes, isMetronomeEnabled,
                   nextBeatTime, currentBeatIndex, rhythmMode, stringBuffers,
                   samplesLoaded, now, timers, frames, plays, playCalls,
                   quiet, prerenderedSource, sources, endedInSession>>
    /\ NoOutput
    /\ UNCHANGED <<wave, userSpeed, renders>>
    /\ UNCHANGED <<tuningVars, fallbacks>>
    /\ UNCHANGED parserVars

\* loadSamples() settles for an export: renderProjectToBuffer() goes on,
\* reads the tempo and the speed, submits the notes and suspends at
\* "await offlineCtx.startRendering()".
ExportLoadSettles ==
  \E p \in exports :
    /\ p.at = "load"
    /\ \E failed \in Failures(p.loading) :
       LET w == [Cache(World, p.loading, failed) EXCEPT
                   !.samplesLoaded = IF ctx = "none" THEN @ ELSE TRUE]
           out == RenderProjectToBuffer(w)
       IN /\ stringBuffers' = w.stringBuffers
          /\ fallbacks' = w.fallbacks
          /\ samplesLoaded' = w.samplesLoaded
          /\ rendered' = out
          /\ renders' = renders \cup {[bpm |-> bpm, out |-> out]}
    /\ exports' = (exports \ {p}) \cup {[p EXCEPT !.at = "render"]}
    /\ sounds' = <<>> /\ lastReport' = <<>> /\ endedCalls' = 0 /\ armed' = 0
    /\ UNCHANGED <<ctx, isPlaying, nextNoteIndex, startTime, schedulerId,
                   animationFrameId, bpm, playbackSpeed, notes,
                   isMetronomeEnabled, nextBeatTime, currentBeatIndex,
                   rhythmMode, now, timers, frames, plays, playCalls, quiet,
                   prerenderedSource, sources, anchor, endedInSession>>
    /\ UNCHANGED <<exportCalls, wave, userSpeed>>
    /\ UNCHANGED tuningVars
    /\ UNCHANGED parserVars

\* The render settles (or null was returned): the export restores the saved
\* speed and encodes the buffer.
ExportRenderSettles ==
  \E p \in exports :
    /\ p.at = "render"
    /\ playbackSpeed' = p.savedSpeed
    /\ anchor' = IF p.savedSpeed = playbackSpeed THEN anchor ELSE <<>>
    /\ exports' = exports \ {p}
    /\ UNCHANGED <<ctx, isPlaying, nextNoteIndex, startTime, schedulerId,
                   animationFrameId, bpm, notes, isMetronomeEnabled,
                   nextBeatTime, currentBeatIndex, rhythmMode, stringBuffers,
                   samplesLoaded, now, timers, frames, plays, playCalls,
                   quiet, prerenderedSource, sources, endedInSession>>
    /\ NoOutput
    /\ UNCHANGED <<exportCalls, wave, userSpeed, renders>>
    /\ UNCHANGED <<tuningVars, fallbacks>>
    /\ UNCHANGED parserVars

-----------------------------------------------------------------------------
(* utils/audio.ts: setTuning and the loadSamples() call it starts and does *)
(* not await, whose fetches settle one at a time.                          *)

\* A tuning that names a note BASE_TUNING does not.
RAISED_TUNING ==
  [id \in {"1D", "1G", "2D"} |->
     CASE id = "1D" -> "E4" [] id = "1G" -> "D4" [] id = "2D" -> "C4"]
\* The tunings the callers set, the loads in flight at once and the changes
\* of tuning followed.
Tunings == {BASE_TUNING, RAISED_TUNING}
MaxLoadings == 1
MaxTuningChanges == 2

\* Array.from(new Set(Object.values(tuning)))
UniqueNotes(tuning) == { tuning[id] : id \in DOMAIN tuning }

\* A caller calls setTuning(tuning): with a context, loadSamples() runs up to
\* the fetches of the note names that have no buffer and is left pending.
SetTuning ==
  \E tuning \in Tunings :
    /\ tuning # currentTuning => tuningChanges < MaxTuningChanges
    /\ ctx # "none" => Cardinality(loadings) < MaxLoadings
    /\ currentTuning' = tuning
    /\ tuningChanges' = IF tuning # currentTuning THEN tuningChanges + 1
                        ELSE tuningChanges
    /\ loadings' =
         IF ctx = "none" THEN loadings
         ELSE loadings \cup
                { [call |-> FreshId({ l.call : l \in loadings }),
                   epoch |-> tuningChanges',
                   names |-> UniqueNotes(tuning),
                   fetched |-> UniqueNotes(tuning) \ stringBuffers,
                   pending |-> UniqueNotes(tuning) \ stringBuffers,
                   failed |-> {}] }
    /\ UNCHANGED <<ctx, isPlaying, nextNoteIndex, startTime, schedulerId,
                   animationFrameId, bpm, playbackSpeed, notes,
                   isMetronomeEnabled, nextBeatTime, currentBeatIndex,
                   rhythmMode, stringBuffers, samplesLoaded, now, timers, frames, plays,
                   playCalls, quiet, prerenderedSource, sources, anchor,
                   endedInSession>>
    /\ NoOutput
    /\ UNCHANGED fallbacks
    /\ UNCHANGED asideVars
    /\ UNCHANGED parserVars

\* One fetch of a pending loadSamples() settles: the sample is decoded and
\* cached, or the catch block caches the fallback tone.
FetchSettles ==
  \E l \in loadings : \E note \in l.pending :
  \E failed \in Failures({note}) :
    /\ LET w == Cache(World, {note}, failed)
       IN /\ stringBuffers' = w.stringBuffers
          /\ fallbacks' = w.fallbacks
    /\ loadings' = (loadings \ {l})
         \cup { [l EXCEPT !.pending = @ \ {note},
                          !.failed = @ \cup failed] }
    /\ UNCHANGED <<ctx, isPlaying, nextNoteIndex, startTime, schedulerId,
                   animationFrameId, bpm, playbackSpeed, notes,
                   isMetronomeEnabled, nextBeatTime, currentBeatIndex,
                   rhythmMode, samplesLoaded, now, timers, frames, plays,
                   playCalls, quiet, prerenderedSource, sources, anchor,
                   endedInSession>>
    /\ NoOutput
    /\ UNCHANGED <<currentTuning, tuningChanges>>
    /\ UNCHANGED asideVars
    /\ UNCHANGED parserVars

\* await Promise.all(loadPromises) settles: this.samplesLoaded = true.
LoadCompletes ==
  \E l \in loadings :
    /\ l.pending = {}
    /\ samplesLoaded' = TRUE
    /\ loadings' = loadings \ {l}
    /\ UNCHANGED <<ctx, isPlaying, nextNoteIndex, startTime, schedulerId,
                   animationFrameId, bpm, playbackSpeed, notes,
                   isMetronomeEnabled, nextBeatTime, currentBeatIndex,
                   rhythmMode, stringBuffers, now, timers, frames, plays,
                   playCalls, quiet, prerenderedSource, sources, anchor,
                   endedInSession>>
    /\ NoOutput
    /\ UNCHANGED <<currentTuning, tuningChanges, fallbacks>>
    /\ UNCHANGED asideVars
    /\ UNCHANGED parserVars

-----------------------------------------------------------------------------
(* utils/audio.ts: bufferToWave(abuffer, len).  A sample is a number in    *)
(* 1/PerSample; v is the record of the function's arguments and locals.    *)

PerSample == 4
MaxFrames == 2
SampleValues == {-6, -4, -2, -1, 0, 3, 6}
SampleRates == {44100, 48000}

\* x|0 of the quotient n / d, d positive: the fraction is dropped.
Trunc(n, d) == IF n >= 0 THEN n \div d ELSE -((-n) \div d)

\* Math.max(-1, Math.min(1, x))
Clamp(x) ==
  IF x > PerSample THEN PerSample
  ELSE IF x < -PerSample THEN -PerSample
  ELSE x

\* (0.5 + sample < 0 ? sample * 32768 : sample * 32767)|0
Quantize(sample) ==
  IF 2 * sample + PerSample < 0 THEN Trunc(sample * 32768, PerSample)
  ELSE Trunc(sample * 32767, PerSample)

\* setUint16(data), setUint32(data)
SetUint16(v, value) ==
  [v EXCEPT !.header = Append(@, [at |-> v.offset, bytes |-> 2, value |-> value]),
            !.offset = @ + 2]
SetUint32(v, value) ==
  [v EXCEPT !.header = Append(@, [at |-> v.offset, bytes |-> 4, value |-> value]),
            !.offset = @ + 4]

\* The header of bufferToWave, in the order it is written: <<bytes, value>>.
HeaderFields(v) ==
  << <<4, 1179011410>>,                        \* "RIFF"
     <<4, v.length - 8>>,                      \* file length - 8
     <<4, 1163280727>>,                        \* "WAVE"
     <<4, 544501094>>,                         \* "fmt " chunk
     <<4, 16>>,                                \* length = 16
     <<2, 1>>,                                 \* PCM (uncompressed)
     <<2, v.numOfChan>>,
     <<4, v.sampleRate>>,
     <<4, v.sampleRate * 2 * v.numOfChan>>,    \* avg. bytes/sec
     <<2, v.numOfChan * 2>>,                   \* block-align
     <<2, 16>>,                                \* 16-bit
     <<4, 1635017060>>,                        \* "data" - chunk
     <<4, v.length - v.pos - 4>> >>            \* chunk length

RECURSIVE WriteHeader(_, _)
WriteHeader(v, fs) ==
  IF fs = <<>> THEN v
  ELSE WriteHeader(IF Head(fs)[1] = 2 THEN SetUint16(v, Head(fs)[2])
                   ELSE SetUint32(v, Head(fs)[2]),
                   Tail(fs))

\* One turn of "while (pos < len)": the frame at pos, channel by channel
\* from channel i (0-based) on, then pos++.
RECURSIVE WriteFrame(_, _)
WriteFrame(v, i) ==
  IF i < v.numOfChan
  THEN WriteFrame(
         [v EXCEPT !.data = Append(@,
                      [at |-> v.offset,
                       value |-> Quantize(Clamp(v.channels[i + 1][v.pos + 1]))]),
                   !.offset = @ + 2],
         i + 1)
  ELSE [v EXCEPT !.pos = @ + 1]

\* bufferToWave is called with a buffer of numOfChan channels of len frames.
WaveCall ==
  /\ wave.pc = "idle"
  /\ \E numOfChan \in {1, 2} : \E len \in 0..MaxFrames :
     \E sampleRate \in SampleRates :
     \E channels \in [1..numOfChan -> [1..len -> SampleValues]] :
       wave' = [pc |-> "header", numOfChan |-> numOfChan, len |-> len,
                sampleRate |-> sampleRate, channels |-> channels,
                length |-> len * numOfChan * 2 + 44, offset |-> 0, pos |-> 0,
                header |-> <<>>, data |-> <<>>]
  /\ UNCHANGED <<parserVars, tuningVars, fallbacks, ctx, isPlaying, nextNoteIndex, startTime,
                 schedulerId, animationFrameId, bpm, playbackSpeed, notes,
                 isMetronomeEnabled, nextBeatTime, currentBeatIndex,
                 rhythmMode, stringBuffers, samplesLoaded, now, timers,
                 frames, plays, sounds, lastReport, endedCalls, armed,
                 playCalls, quiet, prerenderedSource, sources, exports,
                 exportCalls, rendered, userSpeed, anchor, renders,
                 endedInSession>>

\* The header is written.
WaveHeader ==
  /\ wave.pc = "header"
  /\ wave' = [WriteHeader(wave, HeaderFields(wave)) EXCEPT !.pc = "data"]
  /\ UNCHANGED <<parserVars, tuningVars, fallbacks, ctx, isPlaying, nextNoteIndex, startTime,
                 schedulerId, animationFrameId, bpm, playbackSpeed, notes,
                 isMetronomeEnabled, nextBeatTime, currentBeatIndex,
                 rhythmMode, stringBuffers, samplesLoaded, now, timers,
                 frames, plays, sounds, lastReport, endedCalls, armed,
                 playCalls, quiet, prerenderedSource, sources, exports,
                 exportCalls, rendered, userSpeed, anchor, renders,
                 endedInSession>>

\* One frame is written.
WaveFrame ==
  /\ wave.pc = "data"
  /\ wave.pos < wave.len
  /\ wave' = WriteFrame(wave, 0)
  /\ UNCHANGED <<parserVars, tuningVars, fallbacks, ctx, isPlaying, nextNoteIndex, startTime,
                 schedulerId, animationFrameId, bpm, playbackSpeed, notes,
                 isMetronomeEnabled, nextBeatTime, currentBeatIndex,
                 rhythmMode, stringBuffers, samplesLoaded, now, timers,
                 frames, plays, sounds, lastReport, endedCalls, armed,
                 playCalls, quiet, prerenderedSource, sources, exports,
                 exportCalls, rendered, userSpeed, anchor, renders,
                 endedInSession>>

\* return new Blob([buffer]): the blob has the length bytes of the buffer.
WaveReturn ==
  /\ wave.pc = "data"
  /\ wave.pos >= wave.len
  /\ wave' = [wave EXCEPT !.pc = "returned"]
  /\ UNCHANGED <<parserVars, tuningVars, fallbacks, ctx, isPlaying, nextNoteIndex, startTime,
                 schedulerId, animationFrameId, bpm, playbackSpeed, notes,
                 isMetronomeEnabled, nextBeatTime, currentBeatIndex,
                 rhythmMode, stringBuffers, samplesLoaded, now, timers,
                 frames, plays, sounds, lastReport, endedCalls, armed,
                 playCalls, quiet, prerenderedSource, sources, exports,
                 exportCalls, rendered, userSpeed, anchor, renders,
                 endedInSession>>

WaveNext == WaveCall \/ WaveHeader \/ WaveFrame \/ WaveReturn

-----------------------------------------------------------------------------
(* The specifications: the parser on every text, the engine idle; and the  *)
(* engine with every note list, the parser idle.                           *)

ParserSpecInit == ParserInit /\ EngineInit(<<>>)
ParserSpec == ParserSpecInit /\ [][ParserNext]_vars

EngineSpecInit ==
  /\ ParserInit
  /\ text = <<>>
  /\ \E ns \in NoteLists : EngineInit(ns)
EngineSpec == EngineSpecInit /\ [][EngineNext]_vars

\* The encoder on every buffer, the parser and the engine idle.
WaveSpecInit == ParserInit /\ text = <<>> /\ EngineInit(<<>>)
WaveSpec == WaveSpecInit /\ [][WaveNext]_vars

\* Live sessions and prerendered playback, started and stopped.
PlaybackLists ==
  { <<Note(0, "1D")>>,
    <<Note(0, "1D"), Note(12, "1G"), Note(18, "7X")>> }
PlaybackSpecInit ==
  /\ ParserInit
  /\ text = <<>>
  /\ \E ns \in PlaybackLists : EngineInit(ns)
PlaybackNext ==
  \/ PlayCall
  \/ ResumeSettles
  \/ LoadSettles
  \/ StopCall
  \/ PlayPrerenderedCall
  \/ SourceEnded
  \/ TimerFires
  \/ FrameFires
  \/ ClockAdvances
PlaybackSpec == PlaybackSpecInit /\ [][PlaybackNext]_vars

\* The first play() call of an engine.
PlayOnce == playCalls = 0 /\ PlayCall

\* One live session under the tempo setters.
TempoSpecInit ==
  /\ ParserInit
  /\ text = <<>>
  /\ \E ns \in PlaybackLists : EngineInit(ns)
TempoNext ==
  \/ PlayOnce
  \/ ResumeSettles
  \/ LoadSettles
  \/ SetBpm
  \/ SetPlaybackSpeed
  \/ TimerFires
  \/ FrameFires
  \/ ClockAdvances
TempoSpec == TempoSpecInit /\ [][TempoNext]_vars

\* One live session started at tick 0, at the tempo and speed of a new engine.
PlayFromStart == PlayOnce /\ \A p \in plays' : p.startTick = 0
LiveSpecInit ==
  /\ ParserInit
  /\ text = <<>>
  /\ \E ns \in PlaybackLists : EngineInit(ns)
LiveNext ==
  \/ PlayFromStart
  \/ ResumeSettles
  \/ LoadSettles
  \/ TimerFires
  \/ FrameFires
  \/ ClockAdvances
LiveSpec == LiveSpecInit /\ [][LiveNext]_vars

\* One live session started at tick 12, on lists with notes before it.
ResumeTick == 12
ResumeLists ==
  { <<Note(0, "1D"), Note(6, "1G"), Note(18, "1D")>>,
    <<Note(0, "1D"), Note(12, "1G"), Note(24, "1D")>>,
    <<Note(0, "1D"), Note(11, "1G")>> }
PlayFromResumeTick == PlayOnce /\ \A p \in plays' : p.startTick = ResumeTick
ResumeSpecInit ==
  /\ ParserInit
  /\ text = <<>>
  /\ \E ns \in ResumeLists : EngineInit(ns)
ResumeNext ==
  \/ PlayFromResumeTick
  \/ ResumeSettles
  \/ LoadSettles
  \/ TimerFires
  \/ FrameFires
  \/ ClockAdvances
ResumeSpec == ResumeSpecInit /\ [][ResumeNext]_vars

\* One live session with the metronome switched on and off and the meter
\* changed.
MetronomeLists ==
  { <<Note(0, "1D"), Note(6, "1G"), Note(18, "1D")>>,
    <<Note(0, "1D"), Note(0, "2D"), Note(12, "7X")>> }
MetronomeSpecInit ==
  /\ ParserInit
  /\ text = <<>>
  /\ \E ns \in MetronomeLists : EngineInit(ns)
MetronomeNext ==
  \/ PlayOnce
  \/ ResumeSettles
  \/ LoadSettles
  \/ SetMetronome
  \/ SetRhythmMode
  \/ TimerFires
  \/ FrameFires
  \/ ClockAdvances
MetronomeSpec == MetronomeSpecInit /\ [][MetronomeNext]_vars

\* One live session beside the changes of tuning and their loads.
SampleLists == { <<Note(0, "1D"), Note(12, "1D")>> }
SampleSpecInit ==
  /\ ParserInit
  /\ text = <<>>
  /\ \E ns \in SampleLists : EngineInit(ns)
SampleNext ==
  \/ PlayOnce
  \/ ResumeSettles
  \/ LoadSettles
  \/ SetTuning
  \/ FetchSettles
  \/ LoadCompletes
  \/ TimerFires
  \/ ClockAdvances
SampleSpec == SampleSpecInit /\ [][SampleNext]_vars

\* The exports beside one live session, at one instant of the audio clock.
ExportLists ==
  { <<>>,
    <<Note(0, "1D"), Note(12, "1G"), Note(18, "7X")>> }
ExportSpecInit ==
  /\ ParserInit
  /\ text = <<>>
  /\ \E ns \in ExportLists : EngineInit(ns)
ExportNext ==
  \/ ExportCall
  \/ ExportLoadSettles
  \/ ExportRenderSettles
  \/ SetPlaybackSpeed
  \/ PlayOnce
  \/ ResumeSettles
  \/ LoadSettles
  \/ TimerFires
  \/ FrameFires
ExportSpec == ExportSpecInit /\ [][ExportNext]_vars

\* Live sessions played from tick 0, played again and stopped.
PlayAgainFromStart == PlayCall /\ \A p \in plays' \ plays : p.startTick = 0
ReplaySpecInit ==
  /\ ParserInit
  /\ text = <<>>
  /\ \E ns \in PlaybackLists : EngineInit(ns)
ReplayNext ==
  \/ PlayAgainFromStart
  \/ ResumeSettles
  \/ LoadSettles
  \/ StopCall
  \/ TimerFires
  \/ FrameFires
  \/ ClockAdvances
ReplaySpec == ReplaySpecInit /\ [][ReplayNext]_vars

\* Live sessions whose pending timer callbacks do fire: setTimeout runs a
\* callback that stays pending.
CompletionLists ==
  { <<>>,
    <<Note(0, "1D")>> }
CompletionSpecInit ==
  /\ ParserInit
  /\ text = <<>>
  /\ \E ns \in CompletionLists : EngineInit(ns)
CompletionNext ==
  \/ PlayCall
  \/ LoadSettles
  \/ StopCall
  \/ TimerFires
  \/ ClockAdvances
CompletionSpec ==
  CompletionSpecInit /\ [][CompletionNext]_vars /\ WF_vars(TimerFires)

\* One live session left to itself: the metronome is set before play() is
\* called, and after it only the awaits, the timer callbacks and the clock
\* go on; a pending timer callback does run and a running clock does move.
SessionLists ==
  { <<>>,
    <<Note(0, "1D")>>,
    <<Note(0, "1D"), Note(6, "1G")>> }
SetMetronomeFirst == playCalls = 0 /\ SetMetronome
SessionSpecInit ==
  /\ ParserInit
  /\ text = <<>>
  /\ \E ns \in SessionLists : EngineInit(ns)
SessionNext ==
  \/ SetMetronomeFirst
  \/ PlayOnce
  \/ ResumeSettles
  \/ LoadSettles
  \/ TimerFires
  \/ ClockAdvances
SessionSpec ==
  /\ SessionSpecInit /\ [][SessionNext]_vars
  /\ WF_vars(TimerFires) /\ WF_vars(ClockAdvances)

-----
(* The parser's contract, in the words of its specification.               *)

\* The white-space separated fields of a line, read off the line itself.
FieldStart(line, i) == ~IsSpace(line[i]) /\ (i = 1 \/ IsSpace(line[i - 1]))
FieldCount(line) == Cardinality({ i \in 1..Len(line) : FieldStart(line, i) })
Field(line, n) ==
  LET st == CHOOSE i \in 1..Len(line) :
              /\ FieldStart(line, i)
              /\ Cardinality({ j \in 1..i : FieldStart(line, j) }) = n
      en == CHOOSE j \in st..Len(line) :
              /\ \A h \in st..j : ~IsSpace(line[h])
              /\ (j = Len(line) \/ IsSpace(line[j + 1]))
  IN SubSeq(line, st, en)

\* The line the last callback ran on.
LastLine == lines[index]
CallbackRan == ppc \in {"forEach", "returned"} /\ index >= 1
\* The last callback appended an event.
LastEmitted == data # <<>> /\ data[Len(data)].lineIndex = index - 1

\* The fixed values of the duration symbols, in ticks.
ClaimSymbolTicks(tok) ==
  CASE tok = <<"+">> -> 12
    [] tok = <<"<eighth>">> -> 6
    [] tok = <<"<triplet>">> -> 4
    [] tok = <<"<sixteenth>">> -> 3
    [] tok = <<"h">> -> 24
    [] tok = <<"w">> -> 48
ClaimSymbols ==
  { <<"+">>, <<"<eighth>">>, <<"<triplet>">>, <<"<sixteenth>">>, <<"h">>,
    <<"w">> }
\* The literal values of the numeric tokens of the inputs, in half ticks.
ClaimLiteralHalves(tok) ==
  CASE tok = <<"0">> -> 0
    [] tok = <<"3">> -> 6
    [] tok = <<"1", "2">> -> 24
    [] tok = <<"1", ".", "5">> -> 3
    [] tok = <<"0", ".", "5">> -> 1
    [] tok = <<"2", ".", "0">> -> 4
ClaimLiterals ==
  { <<"0">>, <<"3">>, <<"1", "2">>, <<"1", ".", "5">>, <<"0", ".", "5">>,
    <<"2", ".", "0">> }
ClaimDeltaHalves(tok) ==
  IF tok \in ClaimSymbols THEN 2 * ClaimSymbolTicks(tok)
  ELSE ClaimLiteralHalves(tok)

\* A tick that is not a number is in no order with a number; two strings
\* are taken to be in order.
NonDecreasing(a, b) ==
  IF a.k = "string" /\ b.k = "string" THEN TRUE
  ELSE a.k = "number" /\ b.k = "number" /\ a.n <= b.n

\* C1: for any input text the returned sequence is sorted by non-decreasing
\* tick, and events of equal tick are in the order of their input lines.
C1_SortedStable ==
  ppc = "returned" =>
    \A i, j \in 1..Len(result) :
      i < j =>
        /\ NonDecreasing(result[i].tick, result[j].tick)
        /\ result[i].tick = result[j].tick
             => result[i].lineIndex < result[j].lineIndex

\* The lines 1..n all have two fields or more and a numeric or known-symbol
\* delta token (so none has "=").
PlainLines(n) ==
  \A i \in 1..n :
    /\ FieldCount(lines[i]) >= 2
    /\ Field(lines[i], 1) \in ClaimSymbols \cup ClaimLiterals
RECURSIVE SumOfDeltas(_)
SumOfDeltas(n) ==
  IF n = 0 THEN 0
  ELSE SumOfDeltas(n - 1) + ClaimDeltaHalves(Field(lines[n], 1))

\* C2: over lines with two fields or more whose delta tokens are numbers or
\* known symbols, the tick of the event a line emits is the sum of the deltas
\* of the lines up to and including it (a number its literal value, a symbol
\* its fixed value); "+ 1D" then "<eighth> 2G" gives ticks 12 and 18.
C2_TickIsSumOfDeltas ==
  CallbackRan /\ PlainLines(index) =>
    /\ currentTick = Num(SumOfDeltas(index))
    /\ \A i \in 1..Len(data) :
         data[i].tick = Num(SumOfDeltas(data[i].lineIndex + 1))
    /\ \A i \in 1..Len(result) :
         result[i].tick = Num(SumOfDeltas(result[i].lineIndex + 1))
C2_Witness ==
  /\ ppc = "returned"
  /\ lines = << Field2(<<"+">>, <<"1", "D">>),
                Field2(<<"<eighth>">>, <<"2", "G">>) >>
  /\ Len(result) = 2
  /\ result[1].tick = Ticks(12)
  /\ result[2].tick = Ticks(18)

\* The events emitted before the last callback ran.
EarlierData == IF LastEmitted THEN SubSeq(data, 1, Len(data) - 1) ELSE data

\* C3: a line whose delta token is "=" lands on exactly the tick of the most
\* recently emitted event, whatever lines lie in between, and the running
\* cursor is reset to that tick.
C3_EqualsLandsOnLastEvent ==
  ( /\ CallbackRan
    /\ FieldCount(LastLine) >= 2
    /\ Field(LastLine, 1) = <<"=">>
    /\ EarlierData # <<>> ) =>
    /\ noteTick = EarlierData[Len(EarlierData)].tick
    /\ currentTick = EarlierData[Len(EarlierData)].tick
    /\ LastEmitted => data[Len(data)].tick = EarlierData[Len(EarlierData)].tick

\* The callback is about to run on a line of two fields or more whose delta
\* token is a known symbol followed by one dot.
DottedStep ==
  /\ ppc = "forEach" /\ index < Len(lines) /\ index' = index + 1
  /\ FieldCount(lines[index + 1]) >= 2
  /\ \E sym \in ClaimSymbols : Field(lines[index + 1], 1) = sym \o <<".">>
DottedHalves(line) ==
  LET tok == Field(line, 1)
  IN 2 * ((3 * ClaimSymbolTicks(SubSeq(tok, 1, Len(tok) - 1))) \div 2)

\* C4: a known duration symbol followed by one dot contributes
\* floor(value * 1.5) ticks: that is the line's delta, and the cursor and the
\* line's tick move up by it.
C4_DottedDelta ==
  [][DottedStep =>
       /\ thisDelta' = Num(DottedHalves(lines[index + 1]))
       /\ currentTick.k = "number" =>
            /\ currentTick' = Num(currentTick.n + DottedHalves(lines[index + 1]))
            /\ noteTick' = currentTick']_vars
C4_Witness ==
  /\ CallbackRan
  /\ index = 2
  /\ parts[1] = <<"<sixteenth>", ".">>
  /\ thisDelta = Ticks(4)
  /\ lines[1] = Field2(<<"+">>, <<"1", "D">>)
  /\ noteTick = Ticks(16)
  /\ LastEmitted

\* C5: a delta token that is not "=", not a number literal, not a known
\* symbol and not a dotted known symbol contributes exactly 12 ticks.
C5_FallbackIsTwelve ==
  ( /\ CallbackRan
    /\ FieldCount(LastLine) >= 2
    /\ Field(LastLine, 1) \notin
         {<<"=">>} \cup ClaimLiterals \cup ClaimSymbols
           \cup { sym \o <<".">> : sym \in ClaimSymbols } ) =>
    thisDelta = Ticks(12)

ClaimSilences ==
  { <<"S">>, <<"s">>, <<"S", "I", "L", "E", "N", "C", "E">>,
    <<"S", "i", "l", "e", "n", "c", "e">>, <<"S", "E", "P">>,
    <<"s", "e", "p">> }
SilenceStep ==
  /\ ppc = "forEach" /\ index < Len(lines) /\ index' = index + 1
  /\ FieldCount(lines[index + 1]) >= 2
  /\ Field(lines[index + 1], 2) \in ClaimSilences
\* The same line with a string position in place of the silence token.
AsNoteLine(line) == Field2(Field(line, 1), <<"1", "D">>)
SilenceExample ==
  JoinLines(<<Field2(<<"+">>, <<"S">>), Field2(<<"+">>, <<"1", "D">>)>>)

\* C6: a line whose content token is S, SILENCE or SEP in any case emits no
\* event and moves the cursor exactly as the same line with a note would;
\* "+ S" then "+ 1D" returns exactly one event, at tick 24.
C6_SilenceAdvances ==
  [][/\ SilenceStep =>
          /\ data' = data
          /\ currentTick' =
               Callback(AsNoteLine(lines[index + 1]), index, data,
                        currentTick).currentTick
          /\ Len(Callback(AsNoteLine(lines[index + 1]), index, data,
                          currentTick).data) = Len(data) + 1
     /\ (text = SilenceExample /\ ppc' = "returned") =>
          /\ Len(result') = 1
          /\ result'[1].tick = Ticks(24)]_vars
C6_Witness ==
  /\ text = SilenceExample
  /\ ppc = "returned"
  /\ Len(result) = 1
  /\ result[1].tick = Ticks(24)
  /\ result[1].lineIndex = 1

ClaimThumb ==
  { <<"1", "G">>, <<"2", "G">>, <<"3", "G">>, <<"1", "D">>, <<"2", "D">>,
    <<"3", "D">> }
ClaimIndex ==
  { <<"4", "G">>, <<"5", "G">>, <<"6", "G">>, <<"4", "D">>, <<"5", "D">>,
    <<"6", "D">> }
ClaimOverride(line) ==
  IF FieldCount(line) >= 3 /\ Field(line, 3) \in {<<"I">>, <<"i">>}
  THEN <<"I">>
  ELSE IF FieldCount(line) >= 3 /\ Field(line, 3) \in {<<"P">>, <<"p">>}
  THEN <<"P">>
  ELSE <<>>

\* C7: a note's fingering is its line's third field, upper-cased, when that
\* field is exactly I or P in either case; otherwise P for the positions
\* 1G 2G 3G 1D 2D 3D and I for 4G 5G 6G 4D 5D 6D.
C7_Fingering ==
  (CallbackRan /\ LastEmitted /\ data[Len(data)].id[1] = "note") =>
    LET e == data[Len(data)] IN
    IF ClaimOverride(LastLine) # <<>> THEN e.doigt = ClaimOverride(LastLine)
    ELSE /\ e.stringId \in ClaimThumb => e.doigt = <<"P">>
         /\ e.stringId \in ClaimIndex => e.doigt = <<"I">>
C7_Witness ==
  /\ CallbackRan /\ LastEmitted
  /\ LastLine = Field3(<<"<eighth>">>, <<"1", "G">>, <<"i">>)
  /\ data[Len(data)].stringId = <<"1", "G">>
  /\ data[Len(data)].doigt = <<"I">>

TicksOf(evs) == [i \in 1..Len(evs) |-> evs[i].tick]
Without(ls, i) == SubSeq(ls, 1, i - 1) \o SubSeq(ls, i + 1, Len(ls))

\* C8: an empty or white-space-only text returns no event, and a line with
\* fewer than two fields emits nothing and leaves the ticks of all other
\* events as they are without the line.
C8_SkippedLines ==
  ppc = "returned" =>
    /\ (\A i \in 1..Len(text) : IsSpace(text[i])) => result = <<>>
    /\ \A i \in 1..Len(lines) :
         FieldCount(lines[i]) < 2 =>
           /\ \A j \in 1..Len(result) : result[j].lineIndex # i - 1
           /\ TicksOf(result) =
                TicksOf(SortByTick(
                  ForEachFrom(Without(lines, i), 1, <<>>, Num(0)).data))
C8_Witness ==
  /\ ppc = "returned"
  /\ lines = << Field2(<<"+">>, <<"1", "D">>), <<"+">>,
                Field2(<<"<eighth>">>, <<"2", "G">>) >>
  /\ TicksOf(result) = <<Ticks(12), Ticks(18)>>

-----------------------------------------------------------------------------
(* The engine's contract.                                                  *)

\* C9: after stop() has returned and until play() is called again, no note
\* and no metronome click is started and no timer or animation-frame
\* callback is armed, whatever callback fires.
C9_QuietAfterStop ==
  [][(quiet /\ quiet') => (sounds' = <<>> /\ armed' = 0)]_vars

\* C10: at every moment there is at most one pending look-ahead timer and at
\* most one pending position-reporting callback (play() while Playing tears
\* the previous session down first).
C10_OneSession == Cardinality(timers) <= 1 /\ Cardinality(frames) <= 1

\* C11: in every state, stop() leaves the engine Stopped with no pending
\* timer, no pending reporting callback and no prerendered source and
\* starts no sound, and a second stop() right after it changes nothing.
C11_StopIdempotent ==
  LET once == Stop(World)
      twice == Stop(once)
  IN /\ ~once.isPlaying
     /\ once.timers = {} /\ once.frames = {}
     /\ once.prerenderedSource = 0
     /\ once.sounds = <<>> /\ once.endedCalls = 0 /\ once.armed = 0
     /\ twice = once

\* The live session has played its last note and the clock has passed that
\* note's time plus the trailing margin.
PastTheEnd ==
  /\ isPlaying
  /\ notes # <<>>
  /\ nextNoteIndex >= Len(notes)
  /\ now > startTime + notes[Len(notes)].tick * SecondsPerTick(World)
             + END_MARGIN

\* C12: a live session that is past its end does not stay so: it remains
\* past its end until it becomes Stopped (or a play() call that was pending
\* starts the next session), and that does happen; a session that stops
\* other than by a caller's stop() calls onEnded exactly once as it stops;
\* and onEnded is never called twice for one session, whatever timer
\* callbacks are pending.
C12_EndsOnce ==
  /\ PastTheEnd ~> ~PastTheEnd
  /\ [][(PastTheEnd /\ ~PastTheEnd') => (~isPlaying' \/ plays' # plays)]_vars
  /\ [][(isPlaying /\ ~isPlaying' /\ ~StopCall) => endedCalls' = 1]_vars
  /\ [](endedInSession <= 1)

\* A session past its end has just been stopped by a timer callback, which
\* called onEnded, while another timer callback is still pending.
C12_Witness ==
  /\ ~isPlaying /\ ~quiet
  /\ endedCalls = 1 /\ endedInSession = 1
  /\ notes # <<>> /\ nextNoteIndex >= Len(notes)
  /\ timers # {}

\* (60 / (bpm x speed)) / 12 seconds, in 1/240 s.
ClaimSecondsPerTick(b, speed) == 1200 \div (b * speed)

\* C13: at fixed tempo and speed, a note started in a session is
\* (t2 - t1) x secondsPerTick after the first note started in it, t1 and t2
\* being their ticks and secondsPerTick (60 / (bpm x speed)) / 12; and when
\* play(startTick) starts the session, its origin maps startTick to the
\* clock at that moment + 0.1 s.
C13_AffineTime ==
  [][/\ \A i \in DOMAIN sounds' :
          (sounds'[i].kind = "note" /\ anchor' # <<>>) =>
             sounds'[i].time - anchor'[2]
               = (notes'[sounds'[i].n + 1].tick - anchor'[1])
                   * ClaimSecondsPerTick(bpm', playbackSpeed')
     /\ \A p \in plays \ plays' :
          p.at = "load" =>
             startTime' + p.startTick * ClaimSecondsPerTick(bpm', playbackSpeed')
               = now + START_OFFSET]_vars

\* A look-ahead pass at 60 bpm and double speed has started a note that
\* lies after the first note of the session.
C13_Witness ==
  /\ bpm = 60 /\ playbackSpeed = 2
  /\ anchor # <<>>
  /\ \E i \in DOMAIN sounds :
       /\ sounds[i].kind = "note"
       /\ notes[sounds[i].n + 1].tick > anchor[1]

\* The quotients a[1] / a[2] and b[1] / b[2] are equal (positive divisors).
SameQuotient(a, b) == a[1] * b[2] = b[1] * a[2]

\* C14: a setBpm or setPlaybackSpeed call made while Playing leaves
\* getCurrentTick() as it was just before the call.
C14_TempoChangeContinuous ==
  [][(isPlaying /\ (SetBpm \/ SetPlaybackSpeed)) =>
       SameQuotient(GetCurrentTick(World), GetCurrentTick(World'))]_vars

\* C15: every render an export submits uses the speed multiplier 1: its
\* secondsPerTick is (60 / bpm) / 12.
C15_ExportAtUnitSpeed ==
  rendered # <<>> => rendered.secondsPerTick = ClaimSecondsPerTick(bpm, 1)

\* C16: the speed multiplier live playback reads (a look-ahead pass, a
\* getCurrentTick call) is at every moment, during an export and after it,
\* the one last set through setPlaybackSpeed.
C16_ExportLeavesSpeed == playbackSpeed = userSpeed

\* C17: the blob bufferToWave returns for len frames of c channels has
\* 44 + len x c x 2 bytes, its header declares a data chunk of len x c x 2
\* bytes (byte length - 44) and a RIFF size of byte length - 8.
C17_WaveSizes ==
  wave.pc = "returned" =>
    /\ wave.length = 44 + wave.len * wave.numOfChan * 2
    /\ wave.offset = wave.length
    /\ wave.header[13].value = wave.len * wave.numOfChan * 2
    /\ wave.header[13].value = wave.length - 44
    /\ wave.header[2].value = wave.length - 8

\* trunc(s x 32768) for a negative s, trunc(s x 32767) otherwise, s in
\* 1/PerSample.
ClaimQuantize(s) ==
  IF s < 0 THEN Trunc(s * 32768, PerSample) ELSE Trunc(s * 32767, PerSample)

\* C18: every sample bufferToWave writes is the sample of the buffer clamped
\* to [-1, 1] and then quantized as trunc(s x 32768) when s is negative and
\* trunc(s x 32767) otherwise, in frame order with the channels interleaved.
C18_Quantization ==
  wave.pc \in {"data", "returned"} =>
    \A k \in DOMAIN wave.data :
      LET frame == (k - 1) \div wave.numOfChan
          chan == (k - 1) % wave.numOfChan
          s == wave.channels[chan + 1][frame + 1]
          clamped == IF s > PerSample THEN PerSample
                     ELSE IF s < -PerSample THEN -PerSample ELSE s
      IN /\ wave.data[k].at = 44 + 2 * (k - 1)
         /\ wave.data[k].value = ClaimQuantize(clamped)

\* C19: two renders of the note list at the same tempo submit the same notes
\* at the same times with the same gains into a buffer of the same duration.
C19_RenderDeterministic ==
  \A a, b \in renders :
    a.bpm = b.bpm =>
      /\ a.out.subs = b.out.subs
      /\ a.out.duration = b.out.duration

\* C20: every note a live session started at tick 0 with speed 1 triggers is
\* a note the offline render of the same notes, tuning and tempo submits,
\* with the same buffer, the same time after tick 0 and the same gain.
C20_OfflineMatchesLive ==
  playbackSpeed = 1 =>
    \A i \in DOMAIN sounds :
      sounds[i].kind = "note" =>
        \E j \in DOMAIN RenderProjectToBuffer(World).subs :
          LET sub == RenderProjectToBuffer(World).subs[j]
          IN /\ sub.n = sounds[i].n
             /\ sub.with = sounds[i].with
             /\ sub.time = sounds[i].time - startTime
             /\ sub.gain = sounds[i].gain

\* The loadSamples() calls setTuning() started that settle in this step.
Completing == { l \in loadings : l.pending = {} /\ l \notin loadings' }

\* C21: when a loadSamples() call completes with a context, every note name
\* of the tuning it read has a buffer, the decoded sample when its fetch
\* succeeded and the fallback tone when it failed; and a fetch that fails
\* caches the fallback tone for its note name and leaves the call pending on
\* its other fetches, which are cached in their turn.
C21_PerNoteFallback ==
  [][/\ \A l \in Completing :
          /\ l.names \subseteq stringBuffers'
          /\ \A n \in l.fetched : (n \in fallbacks') <=> (n \in l.failed)
     /\ \A l \in loadings : \A m \in loadings' :
          (m.call = l.call /\ m.pending # l.pending) =>
             /\ (l.pending \ m.pending) \subseteq stringBuffers'
             /\ (m.failed \ l.failed) \subseteq fallbacks'
             /\ m.pending \subseteq l.pending
     /\ \A p \in plays \ plays' :
          p.at = "load" => (p.loading \subseteq stringBuffers' /\ isPlaying')
    ]_vars

\* The loadSamples() calls in flight, whoever started them:
\* <<caller, call, tuning changes before it, note names it fetches>>.
Requests ==
  { <<"play", p.call, p.epoch, p.loading>> :
      p \in { q \in plays : q.at = "load" } }
  \cup { <<"export", p.call, p.epoch, p.loading>> :
           p \in { q \in exports : q.at = "load" } }
  \cup { <<"setTuning", l.call, l.epoch, l.fetched>> : l \in loadings }

\* The note names whose buffer is assigned in this step.
Written ==
  UNION { p.loading : p \in { q \in plays \ plays' : q.at = "load" } }
  \cup UNION { p.loading : p \in { q \in exports \ exports' : q.at = "load" } }
  \cup UNION { l.pending \ m.pending :
                 <<l, m>> \in { x \in loadings \X loadings' :
                                  x[1].call = x[2].call } }

\* C22: between two changes of the tuning no note name is fetched by more
\* than one loadSamples() call, whichever operations started them, and the
\* buffer cached for a note name is never assigned again.
C22_RequestedOnce ==
  [][/\ \A a, b \in Requests' :
          (a # b /\ a[3] = b[3]) => a[4] \cap b[4] = {}
     /\ Written \cap stringBuffers = {}]_vars

\* The indices (0-based) of the notes the look-ahead loop goes past in this
\* step: from the cursor, or from the start index when play() starts the
\* session in this step, up to the new cursor.
Passed ==
  LET starting == { p \in plays \ plays' : p.at = "load" }
      from == IF starting = {} THEN nextNoteIndex
              ELSE FindIndex(notes, (CHOOSE p \in starting : TRUE).startTick)
  IN from..(nextNoteIndex' - 1)

\* C28: every note the look-ahead loop goes past whose string the current
\* tuning maps has a cached buffer at that moment, and is started with it
\* unless it is more than 0.05 s late; this whenever setTuning was called,
\* before play(), during its awaits or during playback.
C28_NeverSkipped ==
  [][\A i \in Passed :
       LET name == NoteName(notes[i + 1].stringId)
           time == startTime' + notes[i + 1].tick * SecondsPerTick(World')
       IN name # "" =>
            /\ name \in stringBuffers'
            /\ time >= now - LATE_TOLERANCE =>
                 \E k \in DOMAIN sounds' :
                   /\ sounds'[k].kind = "note"
                   /\ sounds'[k].n = i
                   /\ sounds'[k].with = name]_vars

\* The notes among the sources a step started, in the order it started them.
NoteSounds(ss) == SelectSeq(ss, LAMBDA x : x.kind = "note")

\* C23: within a session nextNoteIndex never decreases; the notes a pass
\* triggers are notes it goes past, each once, in ascending index and tick
\* order, none before a note an earlier pass went past; and a pass with the
\* metronome on moves the cursor and triggers the notes as the same pass with
\* the metronome off.
C23_CursorForward ==
  [][/\ { p \in plays \ plays' : p.at = "load" } = {} =>
          nextNoteIndex' >= nextNoteIndex
     /\ LET ns == NoteSounds(sounds')
        IN /\ \A k \in DOMAIN ns :
                /\ ns[k].n \in Passed
                /\ \A j \in 1..ns[k].n :
                     notes[j].tick <= notes[ns[k].n + 1].tick
           /\ \A k \in 1..(Len(ns) - 1) : ns[k].n < ns[k + 1].n
     /\ LET on == NoteLoop(MetronomeLoop(World'))
            off == NoteLoop(World')
        IN /\ on.nextNoteIndex = off.nextNoteIndex
           /\ NoteSounds(on.sounds) = NoteSounds(off.sounds)]_vars

\* A pass with the metronome on has started a click and then two notes.
C23_Witness ==
  /\ isMetronomeEnabled
  /\ Len(sounds) >= 3
  /\ sounds[1].kind = "click"
  /\ Len(NoteSounds(sounds)) >= 2

\* The index (0-based) of the first note of ns with tick >= startTick, the
\* length of ns when there is none.
ClaimFirstIndex(ns, startTick) ==
  LET later == { i \in 1..Len(ns) : ns[i].tick >= startTick }
  IN IF later = {} THEN Len(ns)
     ELSE (CHOOSE i \in later : \A j \in later : i <= j) - 1

\* C24: play(startTick) puts the cursor on the first note with
\* tick >= startTick, on the length of the list when there is none, for every
\* startTick; and in the session started at tick 12 the first pass starts
\* from that note and no note with a tick below 12 is triggered, in any pass.
C24_StartIndex ==
  [][/\ \A startTick \in 0..25 :
          FindIndex(notes, startTick) = ClaimFirstIndex(notes, startTick)
     /\ \A p \in plays \ plays' :
          p.at = "load" =>
            /\ nextNoteIndex' >= ClaimFirstIndex(notes, p.startTick)
            /\ \A i \in ClaimFirstIndex(notes, p.startTick)..(nextNoteIndex' - 1) :
                 i \in Passed
     /\ \A k \in DOMAIN sounds' :
          sounds'[k].kind = "note" =>
            /\ notes[sounds'[k].n + 1].tick >= ResumeTick
            /\ sounds'[k].n \in Passed]_vars

\* The session started at tick 12 has triggered the note at tick 12, the
\* second of the list.
C24_Witness ==
  /\ isPlaying
  /\ \E k \in DOMAIN sounds :
       /\ sounds[k].kind = "note"
       /\ sounds[k].n = 1
       /\ notes[2].tick = ResumeTick

\* C30: the events are emitted in non-decreasing tick order, so the final
\* sort changes nothing: the returned array lists the events in the order of
\* their lines, with strictly increasing lineIndex, and every tick is a
\* number that is not negative.
C30_SortIsIdentity ==
  ppc = "returned" =>
    /\ result = data
    /\ \A i, j \in 1..Len(result) :
         i < j =>
           /\ result[i].lineIndex < result[j].lineIndex
           /\ NonDecreasing(result[i].tick, result[j].tick)
    /\ \A i \in 1..Len(result) :
         result[i].tick.k = "number" /\ result[i].tick.n >= 0

\* 0.4 s and 0.05 s, in 1/240 s.
ClaimWindow == 96
ClaimTolerance == 12

\* C25: every note and every click a look-ahead pass starts has a time T with
\* now - 0.05 <= T < now + 0.4, now being the clock at the pass; the notes
\* and beats outside are not started.
C25_Window ==
  \A k \in DOMAIN sounds :
    sounds[k].kind \in {"note", "click"} =>
      /\ now - ClaimTolerance <= sounds[k].time
      /\ sounds[k].time < now + ClaimWindow

\* A pass has started a click and a note that lies 0.35 s ahead of the clock.
C25_Witness ==
  \E k, m \in DOMAIN sounds :
    /\ sounds[k].kind = "click"
    /\ sounds[m].kind = "note"
    /\ sounds[m].time = now + 84

\* The first beat at or after startTick: the least k with 12 k >= startTick.
ClaimFirstBeat(startTick) ==
  CHOOSE k \in 0..startTick : 12 * k >= startTick /\ 12 * (k - 1) < startTick

\* C26: play(startTick) leaves the metronome on the first multiple of 12
\* ticks at or after startTick, its beat index that tick / 12, for every
\* startTick; the click of beat index n is started at the time of tick 12 n
\* and is accented exactly when n modulo the meter (4 binary, 3 ternary) is 0.
C26_BeatAlignment ==
  /\ \A startTick \in 0..25 :
       LET quietly == [World EXCEPT !.isMetronomeEnabled = FALSE,
                                   !.ctx = "running"]
           played == PlayBody(quietly, startTick)
           k == ClaimFirstBeat(startTick)
       IN /\ played.currentBeatIndex = k
          /\ played.nextBeatTime
               = played.startTime + 12 * k * ClaimSecondsPerTick(bpm, playbackSpeed)
          /\ played.startTime + startTick * ClaimSecondsPerTick(bpm, playbackSpeed)
               = now + START_OFFSET
  /\ \A i \in DOMAIN sounds :
       sounds[i].kind = "click" =>
         LET meter == IF rhythmMode = "binary" THEN 4 ELSE 3
         IN /\ (sounds[i].with = "accent") <=> (sounds[i].n % meter = 0)
            /\ sounds[i].with \in {"accent", "plain"}
            /\ sounds[i].time
                 = startTime + 12 * sounds[i].n
                                * ClaimSecondsPerTick(bpm, playbackSpeed)

\* In ternary meter the click of beat 3 is started, accented, in a session
\* that began at tick 12.
C26_Witness ==
  /\ rhythmMode = "ternary"
  /\ startTime < now - 24
  /\ \E i \in DOMAIN sounds :
       /\ sounds[i].kind = "click"
       /\ sounds[i].n = 3
       /\ sounds[i].with = "accent"

\* A note the renderer can resolve: its stringId has an entry in the tuning
\* and the note name of that entry has a cached buffer.
ClaimResolvable(note) ==
  /\ note.stringId \in DOMAIN currentTuning
  /\ currentTuning[note.stringId] \in stringBuffers

\* C27: a render submits exactly the notes that resolve (a tuning entry for
\* the stringId and a cached buffer for its note name), once each and in the
\* order of the list, each at tick x secondsPerTick with the buffer of its
\* note name; every other note is left out and the render goes on.
C27_UnresolvableOmitted ==
  rendered # <<>> =>
    /\ \A i \in 1..Len(notes) :
         ClaimResolvable(notes[i])
           <=> \E j \in DOMAIN rendered.subs : rendered.subs[j].n = i - 1
    /\ \A j, k \in DOMAIN rendered.subs :
         j < k => rendered.subs[j].n < rendered.subs[k].n
    /\ \A j \in DOMAIN rendered.subs :
         LET note == notes[rendered.subs[j].n + 1]
         IN /\ rendered.subs[j].time = note.tick * rendered.secondsPerTick
            /\ rendered.subs[j].with = currentTuning[note.stringId]

\* A render that left a note out and submitted the note before it.
C27_Witness ==
  /\ rendered # <<>>
  /\ \E i \in 2..Len(notes) :
       /\ ~ClaimResolvable(notes[i])
       /\ \E j \in DOMAIN rendered.subs : rendered.subs[j].n = i - 2

\* C29: a run of updateTickUI from its animation frame leaves the note
\* cursor, the metronome's beat time and index, the origin and the Playing
\* flag as they were and starts no sound; while Playing it reports
\* (clock - origin) / secondsPerTick and arms one new frame, and otherwise it
\* reports nothing and arms none.
C29_FrameSchedulesNothing ==
  [][FrameFires =>
       /\ nextNoteIndex' = nextNoteIndex
       /\ nextBeatTime' = nextBeatTime
       /\ currentBeatIndex' = currentBeatIndex
       /\ startTime' = startTime
       /\ isPlaying' = isPlaying
       /\ notes' = notes
       /\ timers' = timers
       /\ sounds' = <<>>
       /\ endedCalls' = 0
       /\ IF isPlaying /\ ctx # "none"
          THEN /\ lastReport'
                   = <<now - startTime, ClaimSecondsPerTick(bpm, playbackSpeed)>>
               /\ armed' = 1
               /\ Cardinality(frames') = Cardinality(frames)
          ELSE /\ lastReport' = <<>>
               /\ armed' = 0
               /\ Cardinality(frames') = Cardinality(frames) - 1]_vars

\* A frame has run in a session whose cursor has moved: a position is
\* reported and a frame armed in a step that started no sound.
C29_Witness ==
  /\ isPlaying
  /\ nextNoteIndex > 0
  /\ sounds = <<>>
  /\ armed = 1
  /\ lastReport = <<now - startTime, ClaimSecondsPerTick(bpm, playbackSpeed)>>

\* C33: a play() call that resumes from an await (the clock's resume or the
\* sample loading) after stop() has returned, no play() having been called
\* since, leaves the engine Stopped, arms no timer and no frame and starts
\* no sound.
C33_StoppedPlayStaysStopped ==
  [][(quiet /\ (ResumeSettles \/ LoadSettles)) =>
       /\ ~isPlaying'
       /\ timers' = timers
       /\ armed' = 0
       /\ sounds' = <<>>]_vars

\* C31: while the engine stays Playing, sessions being played from tick 0, no
\* note is started that the cursor has passed: the cursor is put at 0 as the
\* engine becomes Playing and moves on only by handing the note under it to
\* playNote, so a note before the cursor was handed to playNote since the
\* engine became Playing and a note started before the cursor is handed a
\* second time.
C31_TriggeredOnce ==
  [][(isPlaying /\ isPlaying') =>
       \A i \in DOMAIN sounds' :
         sounds'[i].kind = "note" => sounds'[i].n >= nextNoteIndex]_vars

\* 60 / (bpm x speed), in the unit of the audio clock.
ClaimSecondsPerBeat(b, speed) == 14400 \div (b * speed)

\* C32: at fixed tempo and speed, in every state of a session (so after
\* every look-ahead pass, with beats started, beats passed over as too late
\* and the metronome switched off and on again), nextBeatTime is
\* origin + currentBeatIndex x secondsPerBeat.
C32_BeatGrid ==
  nextBeatTime
    = startTime + currentBeatIndex * ClaimSecondsPerBeat(bpm, playbackSpeed)

\* A pass of a Playing engine with the metronome on has left the beat index
\* at 2 or more, after starting the click of the beat before it.
C32_Witness ==
  /\ isPlaying
  /\ isMetronomeEnabled
  /\ currentBeatIndex >= 2
  /\ \E i \in DOMAIN sounds :
       /\ sounds[i].kind = "click"
       /\ sounds[i].n = currentBeatIndex - 1

\* The audio clock can pass the end of the live session: one step of the
\* clock after the time of the last note plus the trailing margin is still
\* an instant the clock reaches.
ClaimClockPassesEnd ==
  notes # <<>> =>
    \E d \in ClockSteps :
      startTime
        + notes[Len(notes)].tick * ClaimSecondsPerTick(bpm, playbackSpeed)
        + END_MARGIN + d <= MaxClock

\* C34: a live session left to itself (no control call after play(), fixed
\* tempo and speed, the clock moving on past the session's end and pending
\* timer callbacks firing) reaches Stopped with no look-ahead timer pending,
\* with the metronome on or off and on the empty list too; and a play() call
\* on the empty list leaves the engine Stopped at once.
C34_SessionEnds ==
  /\ (isPlaying /\ ClaimClockPassesEnd) ~> (~isPlaying /\ timers = {})
  /\ [][(LoadSettles /\ notes = <<>>) => (~isPlaying' /\ timers' = {})]_vars

\* A session with the metronome on has ended by itself and left no timer.
C34_Witness ==
  /\ playCalls = 1 /\ plays = {}
  /\ isMetronomeEnabled
  /\ notes # <<>>
  /\ ~isPlaying
  /\ endedCalls = 1
  /\ timers = {}

\* C35: stop() itself calls no onEnded; the ended handler of a prerendered
\* source that runs after a caller's stop() has returned, nothing having
\* been started since, calls no onEnded; and the ended handler of a source
\* that stop() has stopped (the engine holds no prerendered source) leaves a
\* session Playing that became so after that stop.
C35_EndedOnlyNaturally ==
  [][/\ StopCall => endedCalls' = 0
     /\ (SourceEnded /\ quiet) => endedCalls' = 0
     /\ (SourceEnded /\ isPlaying /\ prerenderedSource = 0
           /\ playCalls <= 2 /\ Cardinality(sources) = 1) => isPlaying']_vars

====
